---- MODULE Spec2Model ----
(***************************************************************************)
(* Model of the memri capture pipeline: the per-monitor capture loops      *)
(* (crates/capture/src/lib.rs), the SQLite sink they share                 *)
(* (crates/storage/src/lib.rs), the notifying sink and the shutdown        *)
(* sequence of the backend (apps/backend/src/main.rs).                     *)
(*                                                                         *)
(* Every SQL statement is a step of its own: persist_batch opens no        *)
(* transaction, each statement is auto-committed on a pooled connection,   *)
(* so the statements of several loops interleave. The code that runs       *)
(* between two statements without touching the store belongs to the step   *)
(* of the statement before it.                                             *)
(***************************************************************************)
EXTENDS Integers, Sequences, FiniteSets, TLC

\* ---- bounds of the model ------------------------------------------------
NumLoops == 2          \* monitors with a capture loop
MaxWindows == 1        \* windows in one captured frame
MaxWrites == 2         \* capture rows one loop inserts
MaxInserts == 3        \* capture rows all loops insert
MaxClock == 1          \* clock readings 0 .. MaxClock, in steps of ClockStep
MaxRetentionDays == 1  \* configured retention_days ranges over 0 .. this
MaxCapturesCfg == 2    \* configured max_captures ranges over 0 .. this
IntervalMs == 1        \* configured capture_interval_ms
MaxIntervalMs == 2     \* configured capture_max_interval_ms
TickIntervalMs == 2    \* capture_interval_ms of the second configuration
TickMaxIntervalMs == 4 \* capture_max_interval_ms of the second configuration
MaxBaseMs == 3         \* Backoff::new: base ranges over 0 .. this
MaxDelayMs == 7        \* Backoff::new: max ranges over 0 .. this
MaxDispatchWindows == 2   \* process_windows_for_ocr: windows of one call
MaxDispatchFrame == 1     \* process_windows_for_ocr: frame_number 0 .. this
MaxDispatchClock == 11    \* process_windows_for_ocr: timestamp_ms 0 .. this
MaxLongDelayMs == 33554432   \* Backoff::new: a max of 2^25 ms (about 9.3 h)
MaxEvaluations == 3    \* evaluate calls on one ChangeDetector
MaxPixel == 60         \* largest luma value in the frames evaluated
MaxLimit == 2          \* search_captures: limit ranges over 0 .. this
MaxPruneCalls == 2     \* prune calls in a row on one store
MaxStored == 3         \* capture rows in the store prune is called on
MaxStoredWindows == 2  \* window rows of one capture in the store read
MaxMonitorId == 2      \* monitor ids range over 0 .. this
MaxMonitorIds == 2     \* entries of the configured monitor_ids list

\* ---- program constants --------------------------------------------------
DayMs == 86400000
ClockStep == 2 * DayMs

Loops == 1 .. NumLoops

Max(a, b) == IF a >= b THEN a ELSE b
Min(a, b) == IF a <= b THEN a ELSE b

VARIABLES
    clock,           \* wall clock, in units of ClockStep
    captures,        \* table captures: set of rows
    windows,         \* table captured_windows: set of rows
    next_id,         \* AUTOINCREMENT counter of captures.id
    events,          \* payloads sent to the broadcast channel, in order
    retention_days,  \* SqliteSink.retention_days (0 = None)
    max_captures,    \* SqliteSink.max_captures (0 = None)
    pc,              \* per loop: the await the task is suspended at
    frame_number,    \* per loop: start_capture's frame_number
    has_prev,        \* per loop: ChangeDetector.previous is Some
    backoff,         \* per loop: Backoff {base, max, current}
    elapsed,         \* per loop: the pending sleep of select! has fired
    batch,           \* per loop: the CaptureBatch of the running iteration
    decision,        \* per loop: the ChangeDecision of the running iteration
    capture_id,      \* per loop: last_insert_rowid() in persist_batch
    widx,            \* per loop: windows of the batch inserted so far
    cutoff,          \* per loop: cutoff_ms computed by the running prune
    total,           \* per loop: COUNT(1) read by the running prune
    shutdown_rx,     \* per loop: messages waiting in the shutdown channel
    signalled_in,    \* per loop: where the loop was when the signal was sent
    written,         \* per loop: frame_numbers of the capture rows inserted
    main_pc,         \* main: "serving", "shutting", "returned"
    main_idx,        \* main: next capture handle to shut down
    bk,              \* a Backoff value, for the calls of its methods
    bk_call,         \* the last method called on bk
    previous,        \* ChangeDetector.previous: the stored frame or None
    evaluated,       \* the frames evaluate was called with, in order
    returned,        \* the ChangeDecision the last evaluate call returned
    iterated,        \* how the iterations made with these frames ended
    query,           \* search_captures: query
    start_time_ms,   \* search_captures: start_time_ms (None or a number)
    end_time_ms,     \* search_captures: end_time_ms (None or a number)
    limit,           \* search_captures: limit
    found,           \* search_captures: the list it returned
    prune_log,       \* the prune calls made in a row: clock read, outcome
    fetched,         \* fetch_captures_metadata: its limit and the list returned
    extracted,       \* extract_search_terms: the user text and the string built
    boot,            \* main before it serves: inputs, position, what it started
    dispatched,      \* process_windows_for_ocr: its inputs and what it did
    filtered         \* WindowFilters: the filters, the window, the answer

vars == << clock, captures, windows, next_id, events, retention_days,
           max_captures, pc, frame_number, has_prev, backoff, elapsed, batch,
           decision, capture_id, widx, cutoff, total, shutdown_rx,
           signalled_in, written, main_pc, main_idx, bk, bk_call, previous,
           evaluated, returned, iterated, query, start_time_ms, end_time_ms, limit,
           found, prune_log, fetched, extracted, boot, dispatched,
           filtered >>

storeVars == << captures, windows, next_id >>
loopVars == << pc, frame_number, has_prev, backoff, elapsed, batch, decision,
               capture_id, widx, cutoff, total, written >>
mainVars == << main_pc, main_idx, shutdown_rx, signalled_in >>
cfgVars == << retention_days, max_captures >>
backoffVars == << bk, bk_call >>
detectorVars == << previous, evaluated, returned, iterated >>
searchVars == << query, start_time_ms, end_time_ms, limit, found >>
pruneVars == << prune_log >>
fetchVars == << fetched >>
extractVars == << extracted >>
bootVars == << boot >>
windowVars == << dispatched, filtered >>
fnVars == << backoffVars, detectorVars, searchVars, pruneVars, fetchVars,
            extractVars, bootVars, windowVars >>

\* Option<T>
None == << >>
Some(x) == << x >>

NoBatch == [frame_number |-> 0, timestamp_ms |-> 0, nwin |-> 0]

\* the pcs at which a loop is inside perform_iteration
IterPcs == {"insert_capture", "insert_windows", "prune_retention",
            "prune_count", "prune_delete"}
\* the pcs at which a loop is inside SqliteSink::prune
PrunePcs == {"prune_retention", "prune_count", "prune_delete"}

\* ---- time ---------------------------------------------------------------
\* SystemTime::now() as epoch milliseconds, for a clock reading t
current_time_ms(t) == t * ClockStep

\* the readings the clock may show now: the clock is only looked at when it
\* is read; between two reads any amount of time may have passed, and
\* SystemTime is a wall clock, which an adjustment may also set back
ClockReadings == 0 .. MaxClock

\* ---- Backoff ------------------------------------------------------------
\* durations are whole milliseconds: CaptureConfig::from_app_config makes
\* them with Duration::from_millis
BackoffNew(base, max) ==
    [base |-> base, max |-> Max(max, base), current |-> base]

\* an f32 holds 24 significant binary digits
F32Digits == 24

\* the distance between neighbouring f32 values around n: the smallest power
\* of two p with n < 2^24 * p
RECURSIVE Ulp(_, _)
Ulp(n, p) == IF n < (2 ^ F32Digits) * p THEN p ELSE Ulp(n, 2 * p)

\* n rounded to a multiple of p, a tie going to the even multiple
RoundTiesEven(n, p) ==
    LET q == n \div p
        r == n % p
    IN  IF 2 * r < p THEN q * p
        ELSE IF 2 * r > p THEN (q + 1) * p
        ELSE IF q % 2 = 0 THEN q * p ELSE (q + 1) * p

\* `as f32` and the f32 product: the nearest f32, ties to even (the unit of
\* n does not matter, only its significant digits)
as_f32(n) == RoundTiesEven(n, Ulp(n, 1))

TruncTimesOneAndHalf(ms) == as_f32(3 * as_f32(ms)) \div 2

\* (current.as_millis() as f32 * 1.5).round() as u64: the conversion and
\* the product are each rounded to an f32 (the product is counted here in
\* halves of a millisecond), then round() takes halves away from zero
RoundTimesOneAndHalf(ms) == (as_f32(3 * as_f32(ms)) + 1) \div 2

BackoffRecordUnclamped(b, d) ==
    IF d \in {"Significant", "FirstFrame"}
    THEN [b EXCEPT !.current = b.base]
    ELSE [b EXCEPT !.current = RoundTimesOneAndHalf(b.current)]

BackoffRecord(b, d) ==
    IF d \in {"Significant", "FirstFrame"}
    THEN [b EXCEPT !.current = b.base]
    ELSE [b EXCEPT !.current = Min(RoundTimesOneAndHalf(b.current), b.max)]

BackoffOnErrorDoubled(b) == [b EXCEPT !.current = Min(2 * b.current, b.max)]

\* on_error: current + base, at most max
BackoffOnError(b) == [b EXCEPT !.current = Min(b.current + b.base, b.max)]

\* ---- ChangeDetector: frame signatures and metrics -------------------------
\* A frame is the sequence of the luma values of its pixels (to_luma8). The
\* f32 / f64 values of the code are exact fractions here; the rounding of the
\* floating-point operations is not modelled.
RECURSIVE SumSeq(_)
SumSeq(q) == IF q = << >> THEN 0 ELSE Head(q) + SumSeq(Tail(q))

RECURSIVE SumProducts(_, _)
SumProducts(a, b) ==
    IF a = << >> THEN 0
    ELSE Head(a) * Head(b) + SumProducts(Tail(a), Tail(b))

Abs(x) == IF x < 0 THEN 0 - x ELSE x

\* a / b <= c / d, for a, c >= 0 and b, d > 0, without forming the products
RECURSIVE FracLeq(_, _, _, _)
FracLeq(a, b, c, d) ==
    LET qa == a \div b
        qc == c \div d
        ra == a % b
        rc == c % d
    IN  IF qa # qc THEN qa < qc
        ELSE IF ra = 0 THEN TRUE
        ELSE IF rc = 0 THEN FALSE
        ELSE FracLeq(d, rc, b, ra)

HISTOGRAM_BINS == 0 .. MaxPixel
HISTOGRAM_THRESHOLD == [num |-> 8, den |-> 100]
SSIM_THRESHOLD == [num |-> 92, den |-> 100]
SSIM_SAMPLE_SIZE == 96

\* c1 = (0.01 * 255)^2 = 2601 / 400 and c2 = (0.03 * 255)^2 = 23409 / 400
SsimC1 == 2601
SsimC2 == 23409
SsimCDen == 400

\* bins[pixel] += 1 for every pixel
build_histogram(image) ==
    [v \in HISTOGRAM_BINS |->
        Cardinality({i \in DOMAIN image : image[i] = v})]

\* frames of at most 96 x 96 pixels are sampled as they are
downsample_for_ssim(image) ==
    IF Len(image) <= SSIM_SAMPLE_SIZE THEN image ELSE << >>

\* FrameSignature::from_image
FrameSignature(image) ==
    [histogram |-> build_histogram(image),
     ssim_sample |-> downsample_for_ssim(image)]

RECURSIVE SumBins(_, _, _, _, _)
SumBins(current, prior, ct, pt, v) ==
    IF v < 0 THEN 0
    ELSE Abs(current[v] * pt - prior[v] * ct)
         + SumBins(current, prior, ct, pt, v - 1)

\* 0.5 * sum over the bins of |c / current_total - p / previous_total|
histogram_distance(current, prior) ==
    LET ct == Max(SumSeq([i \in 1 .. MaxPixel + 1 |-> current[i - 1]]), 1)
        pt == Max(SumSeq([i \in 1 .. MaxPixel + 1 |-> prior[i - 1]]), 1)
    IN  [num |-> SumBins(current, prior, ct, pt, MaxPixel),
         den |-> 2 * ct * pt]

\* an SSIM score is the product (n1 / d1) * (n2 / d2), with n1, d1, d2 > 0
SsimOne == [n1 |-> 1, d1 |-> 1, n2 |-> 1, d2 |-> 1]
SsimMinusOne == [n1 |-> 1, d1 |-> 1, n2 |-> 0 - 1, d2 |-> 1]

\* s <= num / den, for num, den > 0
SsimLeq(s, num, den) ==
    IF s.n2 <= 0 THEN TRUE
    ELSE FracLeq(s.n1, s.d1, num * s.d2, den * s.n2)

\* s < -1
SsimBelowMinusOne(s) ==
    s.n2 < 0 /\ ~FracLeq(s.n1, s.d1, s.d2, 0 - s.n2)

\* .clamp(-1.0, 1.0)
SsimClamp(s) ==
    IF ~SsimLeq(s, 1, 1) THEN SsimOne
    ELSE IF SsimBelowMinusOne(s) THEN SsimMinusOne
    ELSE s

\* means, variances and covariance over the n samples, every factor of the
\* numerator and of the denominator multiplied by 400 * n * n
compute_ssim(current, prior) ==
    IF current = << >> \/ prior = << >> \/ Len(current) # Len(prior)
    THEN SsimOne
    ELSE LET n == Len(current)
             sc == SumSeq(current)
             sp == SumSeq(prior)
             scc == SumProducts(current, current)
             spp == SumProducts(prior, prior)
             scp == SumProducts(current, prior)
             c1 == SsimC1 * n * n
             c2 == SsimC2 * n * n
         IN  SsimClamp(
               [n1 |-> 2 * SsimCDen * sc * sp + c1,
                d1 |-> SsimCDen * (sc * sc + sp * sp) + c1,
                n2 |-> 2 * SsimCDen * (n * scp - sc * sp) + c2,
                d2 |-> SsimCDen * ((n * scc - sc * sc) + (n * spp - sp * sp))
                       + c2])

DecideBothRequired(signature, prev) ==
    IF prev = None THEN [kind |-> "FirstFrame"]
    ELSE LET histogram_delta ==
                 histogram_distance(signature.histogram, prev[1].histogram)
             ssim_score ==
                 compute_ssim(signature.ssim_sample, prev[1].ssim_sample)
         IN  [kind |->
                 IF /\ FracLeq(HISTOGRAM_THRESHOLD.num, HISTOGRAM_THRESHOLD.den,
                               histogram_delta.num, histogram_delta.den)
                    /\ SsimLeq(ssim_score, SSIM_THRESHOLD.num,
                               SSIM_THRESHOLD.den)
                 THEN "Significant" ELSE "Insignificant",
              histogram_delta |-> histogram_delta,
              ssim_score |-> ssim_score]

\* the match of evaluate: what the call returns
Decide(signature, prev) ==
    IF prev = None THEN [kind |-> "FirstFrame"]
    ELSE LET histogram_delta ==
                 histogram_distance(signature.histogram, prev[1].histogram)
             ssim_score ==
                 compute_ssim(signature.ssim_sample, prev[1].ssim_sample)
         IN  [kind |->
                 IF \/ FracLeq(HISTOGRAM_THRESHOLD.num, HISTOGRAM_THRESHOLD.den,
                               histogram_delta.num, histogram_delta.den)
                    \/ SsimLeq(ssim_score, SSIM_THRESHOLD.num,
                               SSIM_THRESHOLD.den)
                 THEN "Significant" ELSE "Insignificant",
              histogram_delta |-> histogram_delta,
              ssim_score |-> ssim_score]

StoredNever(signature, prev, d) == prev

StoredWhenKept(signature, prev, d) ==
    IF d.kind = "Insignificant" THEN prev ELSE Some(signature)

\* the match of evaluate: what the call leaves in self.previous
StoredPrevious(signature, prev, d) == Some(signature)

\* the frames the detector is called with; among them pairs of every kind:
\* equal histograms with low and with high similarity, disjoint histograms
\* with high similarity, frames of different sizes
Frames ==
    { << 10, 10, 10, 10 >>, << 11, 11, 11, 11 >>,
      << 0, MaxPixel, 0, MaxPixel >>, << MaxPixel, 0, MaxPixel, 0 >>,
      << 10, 11, 10, 10 >>, << 10, 10, 11, 10 >>,
      << 10, 10 >> }

\* ---- ChangeDetector in the capture loop ----------------------------------
\* evaluate: FirstFrame without a previous signature, else the comparison
\* of the two signatures, which the frame contents decide
Decisions(prev) ==
    IF prev THEN {"Significant", "Insignificant"} ELSE {"FirstFrame"}

\* ---- store --------------------------------------------------------------
\* a row of captures: id, frame_number and timestamp_ms are its columns; loop
\* and nwin are no columns, they record the loop that inserted the row and
\* the number of windows of its batch
CaptureRow(id, b, l) ==
    [id |-> id, frame_number |-> b.frame_number,
     timestamp_ms |-> b.timestamp_ms, loop |-> l, nwin |-> b.nwin]

WindowRow(cid, i) == [capture_id |-> cid, idx |-> i]

CaptureIds(caps) == {c.id : c \in caps}

\* REFERENCES captures(id) ON DELETE CASCADE: the child rows of the deleted
\* parents go with them
CascadeOff(wins, gone) == wins

CascadeDelete(wins, gone) == {w \in wins : w.capture_id \notin gone}

ForeignKeyOff(caps, cid) == TRUE

\* foreign key check of an INSERT INTO captured_windows
ForeignKeyOk(caps, cid) == cid \in CaptureIds(caps)

\* cutoff_ms = current_time_ms().saturating_sub(days.saturating_mul(86_400_000))
CutoffMs(now, days) == Max(now - days * DayMs, 0)

\* DELETE FROM captures WHERE timestamp_ms < ?
RetentionVictims(caps, cut) == {c \in caps : c.timestamp_ms < cut}

\* SELECT id FROM captures ORDER BY timestamp_ms ASC LIMIT n: the sets of
\* ids the query may return (rows of equal timestamp come in any order)
OldestIds(caps, n) ==
    IF n <= 0 THEN {{}}
    ELSE IF n >= Cardinality(caps) THEN {CaptureIds(caps)}
    ELSE {CaptureIds(S) : S \in {T \in SUBSET caps :
              /\ Cardinality(T) = n
              /\ \A c \in T : \A d \in caps \ T :
                     c.timestamp_ms <= d.timestamp_ms}}

ToDeleteIsMax(n, max) == max

\* to_delete = total - max_i64
ToDelete(n, max) == n - max

\* ---- strings ------------------------------------------------------------
\* A string is the sequence of its characters. The characters of the model:
\* ASCII letters of both cases, the two LIKE wildcards, a letter outside
\* ASCII in both cases, the two quotes, and the space.
Chars == {"a", "b", "e", "h", "t", "B", "T", "_", "%", "é", "É", "\"", "'",
          " ", "A", "c", "p", "r", "s", ":", "/", ".", ")"}

\* bytes of the UTF-8 encoding of a character
Utf8Len(c) == IF c \in {"é", "É"} THEN 2 ELSE 1

\* str::len(): the length in bytes
RECURSIVE StrLen(_)
StrLen(str) ==
    IF str = << >> THEN 0 ELSE Utf8Len(Head(str)) + StrLen(Tail(str))

\* char::is_whitespace
IsWhitespace(c) == c = " "

\* lowercase of one character by the Unicode tables (Rust)
UnicodeLowerChar(c) ==
    CASE c = "B" -> "b"
      [] c = "T" -> "t"
      [] c = "A" -> "a"
      [] c = "É" -> "é"
      [] OTHER -> c

\* lowercase of one character by SQLite: ASCII letters only
AsciiLowerChar(c) ==
    IF c = "B" THEN "b" ELSE IF c = "T" THEN "t" ELSE IF c = "A" THEN "a" ELSE c

\* str::to_lowercase()
to_lowercase(str) == [i \in DOMAIN str |-> UnicodeLowerChar(str[i])]

\* str::contains: sub occurs in str as a substring
Contains(str, sub) ==
    \E i \in 0 .. (Len(str) - Len(sub)) :
        \A k \in 1 .. Len(sub) : str[i + k] = sub[k]

\* SQL LOWER(X)
SqlLower(str) == [i \in DOMAIN str |-> AsciiLowerChar(str[i])]

\* str::split_whitespace(): the maximal runs of non-whitespace characters
RECURSIVE SplitFrom(_, _, _)
SplitFrom(str, piece, pieces) ==
    IF str = << >>
    THEN IF piece = << >> THEN pieces ELSE Append(pieces, piece)
    ELSE IF IsWhitespace(Head(str))
         THEN SplitFrom(Tail(str), << >>,
                        IF piece = << >> THEN pieces
                        ELSE Append(pieces, piece))
         ELSE SplitFrom(Tail(str), Append(piece, Head(str)), pieces)

split_whitespace(str) == SplitFrom(str, << >>, << >>)

\* char::is_alphanumeric
IsAlphanumeric(c) ==
    c \in {"a", "b", "e", "h", "t", "B", "T", "é", "É", "A", "c", "p", "r", "s"}

\* word.trim_matches(|c: char| !c.is_alphanumeric())
RECURSIVE trim_matches(_)
trim_matches(word) ==
    IF word = << >> THEN << >>
    ELSE IF ~IsAlphanumeric(Head(word)) THEN trim_matches(Tail(word))
    ELSE IF ~IsAlphanumeric(word[Len(word)])
         THEN trim_matches(SubSeq(word, 1, Len(word) - 1))
    ELSE word

\* terms.join(" ")
RECURSIVE join(_)
join(terms) ==
    IF terms = << >> THEN << >>
    ELSE IF Len(terms) = 1 THEN terms[1]
    ELSE terms[1] \o << " " >> \o join(Tail(terms))

\* SQL X LIKE pattern, no ESCAPE: % matches any run of characters, _ any one
\* character, ASCII letters match in either case, every other character
\* only itself
RECURSIVE SqlLike(_, _)
SqlLike(str, pattern) ==
    IF pattern = << >> THEN str = << >>
    ELSE IF Head(pattern) = "%"
         THEN \/ SqlLike(str, Tail(pattern))
              \/ str # << >> /\ SqlLike(Tail(str), pattern)
         ELSE /\ str # << >>
              /\ \/ Head(pattern) = "_"
                 \/ AsciiLowerChar(Head(pattern)) = AsciiLowerChar(Head(str))
              /\ SqlLike(Tail(str), Tail(pattern))

\* ---- SqliteSink::search_captures -----------------------------------------
\* a row of captured_windows with the four columns the search reads;
\* browser_url is an Option, the other three are bound as strings
SearchWindowRow(cid, i, rec) ==
    [capture_id |-> cid, idx |-> i, window_name |-> rec.window_name,
     app_name |-> rec.app_name, text |-> rec.text,
     browser_url |-> rec.browser_url]

SearchTermsUnfiltered(q) == split_whitespace(q)

\* query.split_whitespace().filter(|t| t.len() > 1)
SearchTerms(q) == SelectSeq(split_whitespace(q), LAMBDA t : StrLen(t) > 1)

\* format!("%{}%", term.to_lowercase())
LikePattern(term) == << "%" >> \o to_lowercase(term) \o << "%" >>

\* (LOWER(cw.text) LIKE ? OR LOWER(cw.window_name) LIKE ? OR
\*  LOWER(cw.app_name) LIKE ? OR LOWER(cw.browser_url) LIKE ?); a NULL column
\* matches nothing
WhereClause(w, pattern) ==
    \/ SqlLike(SqlLower(w.text), pattern)
    \/ SqlLike(SqlLower(w.window_name), pattern)
    \/ SqlLike(SqlLower(w.app_name), pattern)
    \/ /\ w.browser_url # None
       /\ SqlLike(SqlLower(w.browser_url[1]), pattern)

\* AND (? IS NULL OR c.timestamp_ms >= ?) AND (? IS NULL OR c.timestamp_ms <= ?)
TimeClause(c, start, end) ==
    IF start # None \/ end # None
    THEN /\ start = None \/ c.timestamp_ms >= start[1]
         /\ end = None \/ c.timestamp_ms <= end[1]
    ELSE TRUE

\* SELECT DISTINCT c.* FROM captures c JOIN captured_windows cw ... WHERE
SelectedCaptures(caps, wins, terms, start, end) ==
    {c \in caps :
        /\ \E w \in wins :
              /\ w.capture_id = c.id
              /\ \E k \in DOMAIN terms : WhereClause(w, LikePattern(terms[k]))
        /\ TimeClause(c, start, end)}

\* ORDER BY c.timestamp_ms DESC LIMIT n: the sets of rows the query may
\* return (rows of equal timestamp come in any order)
NewestRows(rows, n) ==
    IF n >= Cardinality(rows) THEN {rows}
    ELSE {T \in SUBSET rows :
              /\ Cardinality(T) = n
              /\ \A c \in T : \A d \in rows \ T :
                     c.timestamp_ms >= d.timestamp_ms}

\* CaptureWithWindows with the windows fetch_windows_metadata_for_ids loads
CaptureWithWindows(c, wins) ==
    [capture_id |-> c.id, frame_number |-> c.frame_number,
     timestamp_ms |-> c.timestamp_ms,
     windows |-> {w \in wins : w.capture_id = c.id}]

\* BTreeMap<i64, CaptureWithWindows>::into_values(): ascending capture id
RECURSIVE ByCaptureId(_, _)
ByCaptureId(rows, wins) ==
    IF rows = {} THEN << >>
    ELSE LET first == CHOOSE c \in rows : \A d \in rows : c.id <= d.id
         IN  << CaptureWithWindows(first, wins) >>
             \o ByCaptureId(rows \ {first}, wins)

\* SELECT ..., NULL as image_base64, ... and image_base64: None
WithoutImage(w) == [w EXCEPT !.image_base64 = None]

\* CaptureWithWindows as fetch_captures_metadata builds it
CaptureWithMetadata(c, wins) ==
    [capture_id |-> c.id, frame_number |-> c.frame_number,
     timestamp_ms |-> c.timestamp_ms,
     windows |-> {WithoutImage(w) : w \in {v \in wins : v.capture_id = c.id}}]

\* captures.into_values(): ascending capture id
RECURSIVE MetadataByCaptureId(_, _)
MetadataByCaptureId(rows, wins) ==
    IF rows = {} THEN << >>
    ELSE LET first == CHOOSE c \in rows : \A d \in rows : c.id <= d.id
         IN  << CaptureWithMetadata(first, wins) >>
             \o MetadataByCaptureId(rows \ {first}, wins)

Unsorted(list) == list

\* ordered.sort_by_key(|c| -c.timestamp_ms): a stable sort, entries of equal
\* timestamp keep their order
RECURSIVE sort_by_key(_)
sort_by_key(list) ==
    IF list = << >> THEN << >>
    ELSE LET i == CHOOSE j \in DOMAIN list :
                    /\ \A k \in DOMAIN list :
                           list[j].timestamp_ms >= list[k].timestamp_ms
                    /\ \A k \in 1 .. (j - 1) :
                           list[k].timestamp_ms < list[j].timestamp_ms
         IN  << list[i] >>
             \o sort_by_key(SubSeq(list, 1, i - 1)
                            \o SubSeq(list, i + 1, Len(list)))

\* the lists fetch_captures_metadata(n) may return
FetchResults(caps, wins, n) ==
    LET limited == Max(n, 0)
    IN  IF limited = 0 THEN {<< >>}
        ELSE {sort_by_key(MetadataByCaptureId(rows, wins)) :
                 rows \in NewestRows(caps, limited)}

\* the lists search_captures may return
SearchResults(caps, wins, q, start, end, n) ==
    LET terms == SearchTerms(q)
    IN  IF terms = << >> THEN {<< >>}
        ELSE {ByCaptureId(rows, wins) :
              rows \in NewestRows(
                  SelectedCaptures(caps, wins, terms, start, end), n)}

\* the windows, queries and time bounds of the searches made
EmptyWindow ==
    [window_name |-> << >>, app_name |-> << >>, text |-> << >>,
     browser_url |-> None]

WindowWith(col, str) ==
    IF col = "browser_url" THEN [EmptyWindow EXCEPT !.browser_url = Some(str)]
    ELSE [EmptyWindow EXCEPT ![col] = str]

SearchColumns == {"text", "window_name", "app_name", "browser_url"}

SearchWords ==
    { << >>, << "a" >>, << "a", "B" >>, << "b", "b" >>, << "a", "_" >>,
      << "%", "%" >>, << "é" >>, << "É" >> }

Queries ==
    SearchWords \cup {v \o << " " >> \o w : v, w \in SearchWords}

SearchBound == 150
SearchTimes == {None, Some(SearchBound)}
StoredTimes == {<< 100, 200 >>, << 200, 100 >>, << 100, 100 >>}

\* ---- extract_search_terms (backend) ---------------------------------------
\* the entries of stop_words that the characters of the model can spell
stop_words ==
    { << "t", "h", "e" >>, << "a" >>, << "t", "h", "a", "t" >> }

\* the loop over query.chars(): the terms between quotes, as they are typed;
\* st is (in_quote, current_term, terms)
RECURSIVE QuotedFrom(_, _)
QuotedFrom(str, st) ==
    IF str = << >> THEN st.terms
    ELSE LET ch == Head(str)
         IN  IF ch = "\"" \/ ch = "'"
             THEN IF st.in_quote /\ st.current_term # << >>
                  THEN QuotedFrom(Tail(str),
                          [in_quote |-> FALSE, current_term |-> << >>,
                           terms |-> Append(st.terms, st.current_term)])
                  ELSE QuotedFrom(Tail(str),
                          [st EXCEPT !.in_quote = ~st.in_quote])
             ELSE IF st.in_quote
                  THEN QuotedFrom(Tail(str),
                          [st EXCEPT !.current_term = Append(@, ch)])
                  ELSE QuotedFrom(Tail(str), st)

InTerms(terms, t) == \E i \in DOMAIN terms : terms[i] = t

\* the loop over query_lower.split_whitespace(): every cleaned word longer
\* than 2 bytes that is no stop word and not yet a term
RECURSIVE MeaningfulFrom(_, _)
MeaningfulFrom(words, terms) ==
    IF words = << >> THEN terms
    ELSE LET cleaned == trim_matches(Head(words))
         IN  IF /\ StrLen(cleaned) > 2
                /\ cleaned \notin stop_words
                /\ ~InTerms(terms, cleaned)
             THEN MeaningfulFrom(Tail(words), Append(terms, cleaned))
             ELSE MeaningfulFrom(Tail(words), terms)

\* if terms.is_empty(): the first cleaned word of 3 bytes or more, alone
RECURSIVE Fallback(_)
Fallback(words) ==
    IF words = << >> THEN << >>
    ELSE LET cleaned == trim_matches(Head(words))
         IN  IF StrLen(cleaned) >= 3 THEN << cleaned >>
             ELSE Fallback(Tail(words))

extract_search_terms(q) ==
    LET query_lower == to_lowercase(q)
        quoted == QuotedFrom(q, [in_quote |-> FALSE, current_term |-> << >>,
                                 terms |-> << >>])
        terms == MeaningfulFrom(split_whitespace(query_lower), quoted)
    IN  join(IF terms = << >> THEN Fallback(split_whitespace(query_lower))
             ELSE terms)

\* the words a user text is made of: stop words and other words in both
\* cases, short words, words in quotes and words with punctuation
PromptWords ==
    { << "t", "h", "e" >>, << "T", "h", "e" >>, << "t", "h", "a", "t" >>,
      << "a" >>, << "b", "e" >>, << "b", "a", "t" >>, << "B", "a", "t" >>,
      << "_", "b", "a", "t", "%" >>, << "é", "a" >>,
      << "\"", "b", "a", "t", "\"" >>, << "\"", "T", "h", "e", "\"" >>,
      << "'", "a", "'" >> }

Prompts ==
    PromptWords \cup {v \o << " " >> \o w : v, w \in PromptWords}

\* ---- event fan-out ------------------------------------------------------
CaptureEventAfterBump(b, l) ==
    [type |-> "capture", frame_number |-> b.frame_number + 1,
     timestamp_ms |-> b.timestamp_ms, windows |-> b.nwin, src |-> l]

\* the JSON payload of NotifyingSink; src is not part of the payload, it
\* records the loop whose persist_batch call sent it
CaptureEvent(b, l) ==
    [type |-> "capture", frame_number |-> b.frame_number,
     timestamp_ms |-> b.timestamp_ms, windows |-> b.nwin, src |-> l]

\* no Backoff under test, no detector call, no search made
BackoffIdle == bk = BackoffNew(0, 0) /\ bk_call = "none"
DetectorIdle ==
    /\ previous = None
    /\ evaluated = << >>
    /\ returned = [kind |-> "none"]
    /\ iterated = << >>
SearchIdle ==
    /\ query = << >>
    /\ start_time_ms = None
    /\ end_time_ms = None
    /\ limit = 0
    /\ found = [called |-> FALSE, list |-> << >>]
PruneIdle == prune_log = << >>
FetchIdle == fetched = [called |-> FALSE, limit |-> 0, list |-> << >>]
ExtractIdle == extracted = [called |-> FALSE, text |-> << >>, terms |-> << >>]

\* main has started a capture loop for each of the monitors 1 .. NumLoops
\* and the API server and waits for the interrupt: where the model of the
\* loops begins
Booted ==
    [pc |-> "serving", capture_disabled |-> FALSE, available |-> Loops,
     monitor_id |-> 0, monitor_ids |-> [l \in Loops |-> l],
     requested |-> [l \in Loops |-> l],
     capture_handles |-> [l \in Loops |-> l], api_task |-> TRUE,
     result |-> "none"]
BootIdle == boot = Booted

\* process_windows_for_ocr and WindowFilters::is_valid have not been called
DispatchIdle ==
    dispatched = [called |-> FALSE, frame_number |-> 0, timestamp_ms |-> 0,
                  windows |-> << >>, outcomes |-> << >>, records |-> << >>,
                  recognized |-> << >>, files |-> << >>]

FilterIdle ==
    filtered = [called |-> FALSE, ignore |-> {}, include |-> {},
                app_name |-> << >>, title |-> << >>, valid |-> FALSE]

WindowsIdle == DispatchIdle /\ FilterIdle

\* the capture tasks and main at rest, pruning off
TasksIdle ==
    /\ clock = 0
    /\ events = << >>
    /\ retention_days = 0
    /\ max_captures = 0
    /\ pc = [l \in Loops |-> "select"]
    /\ frame_number = [l \in Loops |-> 0]
    /\ has_prev = [l \in Loops |-> FALSE]
    /\ backoff = [l \in Loops |-> BackoffNew(IntervalMs, MaxIntervalMs)]
    /\ elapsed = [l \in Loops |-> FALSE]
    /\ batch = [l \in Loops |-> NoBatch]
    /\ decision = [l \in Loops |-> "none"]
    /\ capture_id = [l \in Loops |-> 0]
    /\ widx = [l \in Loops |-> 0]
    /\ cutoff = [l \in Loops |-> 0]
    /\ total = [l \in Loops |-> 0]
    /\ shutdown_rx = [l \in Loops |-> 0]
    /\ signalled_in = [l \in Loops |-> "none"]
    /\ written = [l \in Loops |-> << >>]
    /\ main_pc = "serving"
    /\ main_idx = 1

StoreEmpty == captures = {} /\ windows = {} /\ next_id = 1

Init ==
    /\ BackoffIdle /\ DetectorIdle /\ SearchIdle /\ PruneIdle
    /\ FetchIdle /\ ExtractIdle /\ BootIdle /\ WindowsIdle
    /\ clock = 0
    /\ captures = {}
    /\ windows = {}
    /\ next_id = 1
    /\ events = << >>
    /\ retention_days \in 0 .. MaxRetentionDays
    /\ max_captures \in 0 .. MaxCapturesCfg
    /\ pc = [l \in Loops |-> "select"]
    /\ frame_number = [l \in Loops |-> 0]
    /\ has_prev = [l \in Loops |-> FALSE]
    /\ backoff = [l \in Loops |-> BackoffNew(IntervalMs, MaxIntervalMs)]
    /\ elapsed = [l \in Loops |-> FALSE]
    /\ batch = [l \in Loops |-> NoBatch]
    /\ decision = [l \in Loops |-> "none"]
    /\ capture_id = [l \in Loops |-> 0]
    /\ widx = [l \in Loops |-> 0]
    /\ cutoff = [l \in Loops |-> 0]
    /\ total = [l \in Loops |-> 0]
    /\ shutdown_rx = [l \in Loops |-> 0]
    /\ signalled_in = [l \in Loops |-> "none"]
    /\ written = [l \in Loops |-> << >>]
    /\ main_pc = "serving"
    /\ main_idx = 1

\* the start on a database left by an earlier run of the program: one capture
\* row with one window row, the AUTOINCREMENT counter past it
ShutdownInit ==
    /\ BackoffIdle /\ DetectorIdle /\ SearchIdle /\ PruneIdle
    /\ FetchIdle /\ ExtractIdle /\ BootIdle /\ WindowsIdle
    /\ clock = 0
    /\ captures = {CaptureRow(1, [frame_number |-> 0, timestamp_ms |-> 0,
                                   nwin |-> 1], 0)}
    /\ windows = {WindowRow(1, 0)}
    /\ next_id = 2
    /\ events = << >>
    /\ retention_days = MaxRetentionDays
    /\ max_captures = 1
    /\ pc = [l \in Loops |-> "select"]
    /\ frame_number = [l \in Loops |-> 0]
    /\ has_prev = [l \in Loops |-> FALSE]
    /\ backoff = [l \in Loops |-> BackoffNew(IntervalMs, MaxIntervalMs)]
    /\ elapsed = [l \in Loops |-> FALSE]
    /\ batch = [l \in Loops |-> NoBatch]
    /\ decision = [l \in Loops |-> "none"]
    /\ capture_id = [l \in Loops |-> 0]
    /\ widx = [l \in Loops |-> 0]
    /\ cutoff = [l \in Loops |-> 0]
    /\ total = [l \in Loops |-> 0]
    /\ shutdown_rx = [l \in Loops |-> 0]
    /\ signalled_in = [l \in Loops |-> "none"]
    /\ written = [l \in Loops |-> << >>]
    /\ main_pc = "serving"
    /\ main_idx = 1

\* the runtime lives until main returns; its tasks are dropped with it
RuntimeAlive == main_pc # "returned"

\* ---- capture loop (start_capture) ---------------------------------------
\* capture rows inserted so far, and the loops that may insert one more in
\* the iteration they are in
Inserted == next_id - 1
AboutToInsert == {k \in Loops : pc[k] = "insert_capture"}

\* the loop goes back to the select with a new sleep; the locals of the
\* iteration are gone
EndIteration(l, b, fn) ==
    /\ pc' = [pc EXCEPT ![l] = "select"]
    /\ elapsed' = [elapsed EXCEPT ![l] = FALSE]
    /\ backoff' = [backoff EXCEPT ![l] = b]
    /\ frame_number' = [frame_number EXCEPT ![l] = fn]
    /\ batch' = [batch EXCEPT ![l] = NoBatch]
    /\ decision' = [decision EXCEPT ![l] = "none"]
    /\ capture_id' = [capture_id EXCEPT ![l] = 0]
    /\ widx' = [widx EXCEPT ![l] = 0]
    /\ cutoff' = [cutoff EXCEPT ![l] = 0]
    /\ total' = [total EXCEPT ![l] = 0]

IterationErrRecorded(l) ==
    /\ EndIteration(l, BackoffRecord(backoff[l], decision[l]), frame_number[l])
    /\ UNCHANGED events

\* perform_iteration returned Err: backoff.on_error(), frame_number kept,
\* nothing sent to the channel
IterationErr(l) ==
    /\ EndIteration(l, BackoffOnError(backoff[l]), frame_number[l])
    /\ UNCHANGED events

\* SqliteSink::persist_batch returned Ok(()): NotifyingSink sends the event
\* and returns Ok(()), perform_iteration reports captured = true, the loop
\* records the decision and advances frame_number
IterationOk(l) ==
    /\ events' = Append(events, CaptureEvent(batch[l], l))
    /\ EndIteration(l, BackoffRecord(backoff[l], decision[l]),
                    frame_number[l] + 1)

IterationSkippedCounted(l, d) ==
    /\ EndIteration(l, BackoffRecord(backoff[l], d), frame_number[l] + 1)
    /\ UNCHANGED events

\* perform_iteration returned Ok with captured = false (the frame was
\* Insignificant): the loop records the decision and keeps frame_number
IterationSkipped(l, d) ==
    /\ EndIteration(l, BackoffRecord(backoff[l], d), frame_number[l])
    /\ UNCHANGED events

CaptureFailedEvaluated(l) ==
    /\ IterationErr(l)
    /\ has_prev' = [has_prev EXCEPT ![l] = TRUE]
    /\ UNCHANGED clock

\* platform::capture_frame returned Err: perform_iteration returns it before
\* change_detector.evaluate and before the clock is read
CaptureFailed(l) ==
    /\ IterationErr(l)
    /\ UNCHANGED << has_prev, clock >>

PruneErrPropagated(l) == IterationErr(l)

\* prune returned Err: persist_batch logs "pruning failed" and goes on to
\* return Ok(())
PruneErr(l) == IterationOk(l)

\* persist_batch goes on to its next statement
Goto(l, to) ==
    /\ pc' = [pc EXCEPT ![l] = to]
    /\ UNCHANGED << events, frame_number, backoff, elapsed, batch, decision >>

\* where prune starts: the first of its two sections that is configured
PruneEntry ==
    IF retention_days > 0 THEN "prune_retention"
    ELSE IF max_captures > 0 THEN "prune_count"
    ELSE "return"

\* the timer of the pending sleep fires
TimerFire(l) ==
    /\ RuntimeAlive
    /\ pc[l] = "select"
    /\ ~elapsed[l]
    /\ elapsed' = [elapsed EXCEPT ![l] = TRUE]
    /\ UNCHANGED << clock, storeVars, events, cfgVars, fnVars, pc, frame_number,
                    has_prev, backoff, batch, decision, capture_id, widx,
                    cutoff, total, written, mainVars >>

\* select!: the shutdown_rx.recv() branch completes; the loop breaks
SelectShutdown(l) ==
    /\ RuntimeAlive
    /\ pc[l] = "select"
    /\ shutdown_rx[l] > 0
    /\ pc' = [pc EXCEPT ![l] = "done"]
    /\ shutdown_rx' = [shutdown_rx EXCEPT ![l] = 0]
    /\ elapsed' = [elapsed EXCEPT ![l] = FALSE]
    /\ UNCHANGED << clock, storeVars, events, cfgVars, fnVars, frame_number, has_prev,
                    backoff, batch, decision, capture_id, widx, cutoff, total,
                    written, signalled_in, main_pc, main_idx >>

\* select!: the sleep branch completes (select! polls its branches in random
\* order, so this branch is taken also when a shutdown message is waiting)
\* and perform_iteration runs up to the call of the sink: the platform
\* returns a frame or fails; the detector evaluates the monitor image; unless
\* the frame is Insignificant the timestamp is read and
\* process_windows_for_ocr makes one record per window
SelectTick(l) ==
    /\ RuntimeAlive
    /\ pc[l] = "select"
    /\ elapsed[l]
    /\ Len(written[l]) < MaxWrites
    /\ Inserted + Cardinality(AboutToInsert) < MaxInserts
    /\ \E ok \in BOOLEAN :
         IF ~ok
         THEN CaptureFailed(l)
         ELSE \E d \in Decisions(has_prev[l]), n \in 0 .. MaxWindows,
                 t \in ClockReadings :
                /\ has_prev' = [has_prev EXCEPT ![l] = TRUE]
                /\ IF d = "Insignificant"
                   THEN /\ IterationSkipped(l, d)
                        /\ UNCHANGED clock
                   ELSE /\ clock' = t
                        /\ batch' = [batch EXCEPT ![l] =
                               [frame_number |-> frame_number[l],
                                timestamp_ms |-> current_time_ms(t),
                                nwin |-> n]]
                        /\ decision' = [decision EXCEPT ![l] = d]
                        /\ pc' = [pc EXCEPT ![l] = "insert_capture"]
                        /\ elapsed' = [elapsed EXCEPT ![l] = FALSE]
                        /\ UNCHANGED << events, frame_number, backoff,
                                        capture_id, widx, cutoff, total >>
    /\ UNCHANGED << storeVars, cfgVars, fnVars, written, mainVars >>

\* ---- SqliteSink::persist_batch ------------------------------------------
\* pool.acquire() and INSERT INTO captures; either may fail
InsertCapture(l) ==
    /\ RuntimeAlive
    /\ pc[l] = "insert_capture"
    /\ \E ok \in BOOLEAN :
         IF ~ok
         THEN /\ IterationErr(l)
              /\ UNCHANGED << storeVars, written >>
         ELSE /\ captures' = captures \cup {CaptureRow(next_id, batch[l], l)}
              /\ next_id' = next_id + 1
              /\ written' = [written EXCEPT
                                ![l] = Append(@, batch[l].frame_number)]
              /\ UNCHANGED windows
              /\ IF batch[l].nwin = 0 /\ PruneEntry = "return"
                 THEN IterationOk(l)
                 ELSE /\ Goto(l, IF batch[l].nwin > 0 THEN "insert_windows"
                                  ELSE PruneEntry)
                      /\ capture_id' = [capture_id EXCEPT ![l] = next_id]
                      /\ UNCHANGED << widx, cutoff, total >>
    /\ UNCHANGED << clock, cfgVars, fnVars, has_prev, mainVars >>

\* INSERT INTO captured_windows for the next window of the batch; it fails
\* when the parent row is gone (foreign key) or when the statement fails
InsertWindow(l) ==
    /\ RuntimeAlive
    /\ pc[l] = "insert_windows"
    /\ \E ok \in BOOLEAN :
         IF ~ok \/ ~ForeignKeyOk(captures, capture_id[l])
         THEN /\ IterationErr(l)
              /\ UNCHANGED windows
         ELSE /\ windows' = windows \cup {WindowRow(capture_id[l], widx[l])}
              /\ IF widx[l] + 1 < batch[l].nwin
                 THEN /\ Goto(l, "insert_windows")
                      /\ widx' = [widx EXCEPT ![l] = @ + 1]
                      /\ UNCHANGED << capture_id, cutoff, total >>
                 ELSE IF PruneEntry = "return"
                      THEN IterationOk(l)
                      ELSE /\ Goto(l, PruneEntry)
                           /\ widx' = [widx EXCEPT ![l] = @ + 1]
                           /\ UNCHANGED << capture_id, cutoff, total >>
    /\ UNCHANGED << clock, captures, next_id, cfgVars, fnVars, has_prev, written,
                    mainVars >>

\* ---- SqliteSink::prune --------------------------------------------------
\* DELETE FROM captures WHERE timestamp_ms < cutoff_ms, on the pool; a
\* failure ends prune with an error, which persist_batch only logs
PruneRetention(l) ==
    /\ RuntimeAlive
    /\ pc[l] = "prune_retention"
    /\ \E ok \in BOOLEAN :
         IF ~ok
         THEN /\ PruneErr(l)
              /\ UNCHANGED << captures, windows, clock >>
         ELSE \E t \in ClockReadings :
              LET cut == CutoffMs(current_time_ms(t), retention_days)
                  gone == RetentionVictims(captures, cut)
              IN  /\ clock' = t
                  /\ captures' = captures \ gone
                  /\ windows' = CascadeDelete(windows, CaptureIds(gone))
                  /\ IF max_captures > 0
                     THEN /\ Goto(l, "prune_count")
                          /\ cutoff' = [cutoff EXCEPT ![l] = cut]
                          /\ UNCHANGED << capture_id, widx, total >>
                     ELSE IterationOk(l)
    /\ UNCHANGED << next_id, cfgVars, fnVars, has_prev, written, mainVars >>

\* SELECT COUNT(1) FROM captures, unwrap_or(0) on failure
PruneCount(l) ==
    /\ RuntimeAlive
    /\ pc[l] = "prune_count"
    /\ \E ok \in BOOLEAN :
         LET n == IF ok THEN Cardinality(captures) ELSE 0
         IN  IF n > max_captures
             THEN /\ Goto(l, "prune_delete")
                  /\ total' = [total EXCEPT ![l] = n]
                  /\ UNCHANGED << capture_id, widx, cutoff >>
             ELSE IterationOk(l)
    /\ UNCHANGED << clock, storeVars, cfgVars, fnVars, has_prev, written, mainVars >>

\* DELETE FROM captures WHERE id IN (the total - max oldest ids)
PruneDelete(l) ==
    /\ RuntimeAlive
    /\ pc[l] = "prune_delete"
    /\ \E ok \in BOOLEAN :
         IF ~ok
         THEN /\ PruneErr(l)
              /\ UNCHANGED << captures, windows >>
         ELSE \E gone \in OldestIds(captures, ToDelete(total[l], max_captures)) :
                /\ captures' = {c \in captures : c.id \notin gone}
                /\ windows' = CascadeDelete(windows, gone)
                /\ IterationOk(l)
    /\ UNCHANGED << clock, next_id, cfgVars, fnVars, has_prev, written, mainVars >>

\* ---- main ---------------------------------------------------------------
\* signal::ctrl_c() completes
CtrlC ==
    /\ main_pc = "serving"
    /\ main_pc' = "shutting"
    /\ main_idx' = 1
    /\ UNCHANGED << clock, storeVars, events, cfgVars, fnVars, loopVars, shutdown_rx,
                    signalled_in >>

\* where a loop is, as seen by the sender of its shutdown signal
LoopPhase(l) ==
    IF pc[l] = "select"
    THEN IF elapsed[l] THEN "elapsed" ELSE "sleeping"
    ELSE IF pc[l] = "done" THEN "done" ELSE "iterating"

\* handle.shutdown().await for the next handle: one message into the
\* capacity-1 channel of that loop (an error, logged, if the loop has ended)
MainShutdown ==
    /\ main_pc = "shutting"
    /\ main_idx <= NumLoops
    /\ shutdown_rx' = [shutdown_rx EXCEPT
                          ![main_idx] = IF pc[main_idx] = "done" THEN @ ELSE 1]
    /\ signalled_in' = [signalled_in EXCEPT ![main_idx] = LoopPhase(main_idx)]
    /\ main_idx' = main_idx + 1
    /\ UNCHANGED << clock, storeVars, events, cfgVars, fnVars, loopVars, main_pc >>

\* api_task.abort(); Ok(()): main returns, the runtime is dropped and with it
\* every task that has not finished
MainReturn ==
    /\ main_pc = "shutting"
    /\ main_idx > NumLoops
    /\ main_pc' = "returned"
    /\ UNCHANGED << clock, storeVars, events, cfgVars, fnVars, loopVars, main_idx,
                    shutdown_rx, signalled_in >>

LoopStep(l) ==
    \/ TimerFire(l)
    \/ SelectShutdown(l)
    \/ SelectTick(l)
    \/ InsertCapture(l)
    \/ InsertWindow(l)
    \/ PruneRetention(l)
    \/ PruneCount(l)
    \/ PruneDelete(l)

Next ==
    \/ CtrlC
    \/ MainShutdown
    \/ MainReturn
    \/ \E l \in Loops : LoopStep(l)

\* the steps of the loops while main serves (before the interrupt)
RunNext ==
    \E l \in Loops :
        \/ TimerFire(l)
        \/ SelectTick(l)
        \/ InsertCapture(l)
        \/ InsertWindow(l)
        \/ PruneRetention(l)
        \/ PruneCount(l)
        \/ PruneDelete(l)

Spec == Init /\ [][Next]_vars

\* ---- Backoff, method by method -------------------------------------------
\* intervals of an hour and a half and more, where 1.5 * current passes 2^23
\* and 2^24
LongBases == {5592405, 5592407, 16777217}

\* Backoff::new(base, max), for every base and max
BackoffInit ==
    /\ TasksIdle /\ StoreEmpty /\ DetectorIdle /\ SearchIdle /\ PruneIdle
    /\ FetchIdle /\ ExtractIdle /\ BootIdle /\ WindowsIdle
    /\ \E cfg \in ((0 .. MaxBaseMs) \X (0 .. MaxDelayMs))
                     \cup (LongBases \X {MaxLongDelayMs}) :
          bk = BackoffNew(cfg[1], cfg[2])
    /\ bk_call = "new"

\* backoff.record(&decision)
BackoffRecordCall ==
    /\ \E d \in {"FirstFrame", "Significant", "Insignificant"} :
          /\ bk' = BackoffRecord(bk, d)
          /\ bk_call' = d
    /\ UNCHANGED << clock, storeVars, events, cfgVars, loopVars, mainVars, pruneVars, fetchVars, extractVars,
                    bootVars, windowVars,
                    detectorVars, searchVars >>

\* backoff.on_error()
BackoffOnErrorCall ==
    /\ bk' = BackoffOnError(bk)
    /\ bk_call' = "on_error"
    /\ UNCHANGED << clock, storeVars, events, cfgVars, loopVars, mainVars, pruneVars, fetchVars, extractVars,
                    bootVars, windowVars,
                    detectorVars, searchVars >>

BackoffNext == BackoffRecordCall \/ BackoffOnErrorCall

BackoffSpec == BackoffInit /\ [][BackoffNext]_vars

\* ---- ChangeDetector, call by call ----------------------------------------
\* ChangeDetector::new()
DetectorInit ==
    /\ TasksIdle /\ StoreEmpty /\ BackoffIdle /\ SearchIdle /\ PruneIdle
    /\ FetchIdle /\ ExtractIdle /\ BootIdle /\ WindowsIdle
    /\ DetectorIdle

\* change_detector.evaluate(&image)
Evaluate ==
    /\ Len(evaluated) < MaxEvaluations
    /\ \E image \in Frames :
          LET signature == FrameSignature(image)
              d == Decide(signature, previous)
          IN  /\ returned' = d
              /\ previous' = StoredPrevious(signature, previous, d)
              /\ evaluated' = Append(evaluated, image)
    /\ UNCHANGED << iterated, clock, storeVars, events, cfgVars, loopVars, mainVars, pruneVars, fetchVars, extractVars,
                    bootVars, windowVars,
                    backoffVars, searchVars >>

DetectorNext == Evaluate

DetectorSpec == DetectorInit /\ [][DetectorNext]_vars

\* ---- search_captures, call by call ---------------------------------------
\* a store of two captures: the first with one window, whose string is in
\* any of the four columns, the second with two windows
SearchInit ==
    /\ TasksIdle /\ BackoffIdle /\ DetectorIdle /\ SearchIdle /\ PruneIdle
    /\ FetchIdle /\ ExtractIdle /\ BootIdle /\ WindowsIdle
    /\ next_id = 3
    /\ \E ts \in StoredTimes :
          captures =
              {CaptureRow(1, [frame_number |-> 0, timestamp_ms |-> ts[1],
                              nwin |-> 1], 1),
               CaptureRow(2, [frame_number |-> 1, timestamp_ms |-> ts[2],
                              nwin |-> 2], 1)}
    /\ \E col \in SearchColumns,
          s1 \in {<< "a", "B" >>, << "a", "_" >>, << "É" >>},
          s2 \in {<< "b", "b" >>, << "é" >>, << "a", "B" >>},
          s3 \in {<< "a", "B" >>, << "b", "b" >>} :
          windows = {SearchWindowRow(1, 0, WindowWith(col, s1)),
                     SearchWindowRow(2, 0, WindowWith("text", s2)),
                     SearchWindowRow(2, 1, WindowWith("text", s3))}

\* search_captures(query, start_time_ms, end_time_ms, limit) returns Ok
Search ==
    /\ ~found.called
    /\ \E q \in Queries, start \in SearchTimes, end \in SearchTimes,
          n \in 0 .. MaxLimit :
          \E list \in SearchResults(captures, windows, q, start, end, n) :
             /\ query' = q
             /\ start_time_ms' = start
             /\ end_time_ms' = end
             /\ limit' = n
             /\ found' = [called |-> TRUE, list |-> list]
    /\ UNCHANGED << clock, storeVars, events, cfgVars, loopVars, mainVars, pruneVars, fetchVars, extractVars,
                    bootVars, windowVars,
                    backoffVars, detectorVars >>

SearchNext == Search

SearchSpec == SearchInit /\ [][SearchNext]_vars

\* ---- SqliteSink::prune, call by call --------------------------------------
\* the loops as start_capture leaves them, for the configured intervals,
\* and main serving
LoopsStarted(interval, max_interval) ==
    /\ events = << >>
    /\ pc = [l \in Loops |-> "select"]
    /\ frame_number = [l \in Loops |-> 0]
    /\ has_prev = [l \in Loops |-> FALSE]
    /\ backoff = [l \in Loops |-> BackoffNew(interval, max_interval)]
    /\ elapsed = [l \in Loops |-> FALSE]
    /\ batch = [l \in Loops |-> NoBatch]
    /\ decision = [l \in Loops |-> "none"]
    /\ capture_id = [l \in Loops |-> 0]
    /\ widx = [l \in Loops |-> 0]
    /\ cutoff = [l \in Loops |-> 0]
    /\ total = [l \in Loops |-> 0]
    /\ shutdown_rx = [l \in Loops |-> 0]
    /\ signalled_in = [l \in Loops |-> "none"]
    /\ written = [l \in Loops |-> << >>]
    /\ main_pc = "serving"
    /\ main_idx = 1

LoopsIdle == LoopsStarted(IntervalMs, MaxIntervalMs)

\* a store of MaxStored captures, each with one window, inserted at any of
\* the clock readings
StoredCaptures ==
    {[i \in 1 .. MaxStored |->
         CaptureRow(i, [frame_number |-> i - 1,
                        timestamp_ms |-> current_time_ms(ts[i]),
                        nwin |-> 1], 1)] :
        ts \in [1 .. MaxStored -> 0 .. MaxClock]}

PruneInit ==
    /\ LoopsIdle /\ BackoffIdle /\ DetectorIdle /\ SearchIdle /\ PruneIdle
    /\ FetchIdle /\ ExtractIdle /\ BootIdle /\ WindowsIdle
    /\ clock = 0
    /\ retention_days \in 0 .. MaxRetentionDays
    /\ max_captures \in 0 .. MaxCapturesCfg
    /\ \E rows \in StoredCaptures :
          /\ captures = {rows[i] : i \in 1 .. MaxStored}
          /\ windows = {WindowRow(i, 0) : i \in 1 .. MaxStored}
    /\ next_id = MaxStored + 1

\* the rows the retention section leaves: every row when the section is
\* off or its DELETE fails
AfterRetention(caps, now, ok) ==
    IF retention_days > 0 /\ ok
    THEN caps \ RetentionVictims(caps, CutoffMs(now, retention_days))
    ELSE caps

\* the sets of rows the cap section may leave, after a COUNT that succeeded
\* or fell back to 0 and a DELETE that succeeded or failed
AfterCap(caps, okCount, okDelete) ==
    LET n == IF okCount THEN Cardinality(caps) ELSE 0
    IN  IF max_captures > 0 /\ n > max_captures /\ okDelete
        THEN {{c \in caps : c.id \notin gone} :
                 gone \in OldestIds(caps, ToDelete(n, max_captures))}
        ELSE {caps}

\* one call of prune with no other statement on the pool in between: the
\* retention section, then, unless it returned Err, the cap section
Prune ==
    /\ Len(prune_log) < MaxPruneCalls
    /\ \E t \in ClockReadings, okRetention, okCount, okDelete \in BOOLEAN :
         LET kept == AfterRetention(captures, current_time_ms(t), okRetention)
             err == retention_days > 0 /\ ~okRetention
         IN  \E left \in (IF err THEN {kept}
                          ELSE AfterCap(kept, okCount, okDelete)) :
                /\ clock' = t
                /\ captures' = left
                /\ windows' = CascadeDelete(windows,
                                  CaptureIds(captures \ left))
                /\ prune_log' = Append(prune_log,
                       [now |-> t,
                        failed |-> \/ err
                                   \/ max_captures > 0 /\ ~okCount
                                   \/ /\ max_captures > 0
                                      /\ Cardinality(kept) > max_captures
                                      /\ ~okDelete,
                        deleted |-> CaptureIds(captures \ left)])
    /\ UNCHANGED << next_id, events, cfgVars, loopVars, mainVars, backoffVars,
                    detectorVars, searchVars, fetchVars, extractVars,
                    bootVars, windowVars >>

PruneNext == Prune

PruneSpec == PruneInit /\ [][PruneNext]_vars

\* ---- fetch_captures_metadata, call by call --------------------------------
\* a window row with an inline image
StoredWindow(cid, i) ==
    [capture_id |-> cid, idx |-> i, image_base64 |-> Some("png")]

\* a store of MaxStored captures with any timestamps and up to
\* MaxStoredWindows windows each
FetchInit ==
    /\ TasksIdle /\ BackoffIdle /\ DetectorIdle /\ SearchIdle /\ PruneIdle
    /\ FetchIdle /\ ExtractIdle /\ BootIdle /\ WindowsIdle
    /\ next_id = MaxStored + 1
    /\ \E ts \in [1 .. MaxStored -> 0 .. (MaxStored - 1)],
          nw \in [1 .. MaxStored -> 0 .. MaxStoredWindows] :
          /\ captures = {CaptureRow(i, [frame_number |-> i - 1,
                                        timestamp_ms |-> ts[i],
                                        nwin |-> nw[i]], 1) :
                            i \in 1 .. MaxStored}
          /\ windows = UNION {{StoredWindow(i, k) : k \in 0 .. (nw[i] - 1)} :
                                i \in 1 .. MaxStored}

\* fetch_captures_metadata(limit) returns Ok
Fetch ==
    /\ ~fetched.called
    /\ \E n \in (0 - 1) .. (MaxStored + 1) :
          \E list \in FetchResults(captures, windows, n) :
             fetched' = [called |-> TRUE, limit |-> n, list |-> list]
    /\ UNCHANGED << clock, storeVars, events, cfgVars, loopVars, mainVars,
                    backoffVars, detectorVars, searchVars, pruneVars,
                    extractVars, bootVars, windowVars >>

FetchNext == Fetch

FetchSpec == FetchInit /\ [][FetchNext]_vars

\* ---- extract_search_terms, call by call -----------------------------------
\* a user text has arrived
ExtractInit ==
    /\ TasksIdle /\ StoreEmpty /\ BackoffIdle /\ DetectorIdle /\ SearchIdle
    /\ PruneIdle /\ FetchIdle /\ BootIdle /\ WindowsIdle
    /\ \E q \in Prompts :
          extracted = [called |-> FALSE, text |-> q, terms |-> << >>]

\* extract_search_terms(&prompt)
Extract ==
    /\ ~extracted.called
    /\ extracted' = [extracted EXCEPT
                        !.called = TRUE,
                        !.terms = extract_search_terms(extracted.text)]
    /\ UNCHANGED << clock, storeVars, events, cfgVars, loopVars, mainVars,
                    backoffVars, detectorVars, searchVars, pruneVars,
                    fetchVars, bootVars, windowVars >>

ExtractNext == Extract

ExtractSpec == ExtractInit /\ [][ExtractNext]_vars

\* ---- main, from its start to the wait for the interrupt -------------------
Monitors == 0 .. MaxMonitorId

\* the configured monitor_ids lists
MonitorIdLists ==
    UNION {[1 .. n -> Monitors] : n \in 0 .. MaxMonitorIds}

\* main is entered: the environment (MEMRI_DISABLE_CAPTURE, monitor_id,
\* monitor_ids) and the monitors the platform will report
BootInit ==
    /\ TasksIdle /\ StoreEmpty /\ BackoffIdle /\ DetectorIdle /\ SearchIdle
    /\ PruneIdle /\ FetchIdle /\ ExtractIdle /\ WindowsIdle
    /\ \E disabled \in BOOLEAN, avail \in SUBSET Monitors, id \in Monitors,
          ids \in MonitorIdLists :
          boot = [pc |-> "config", capture_disabled |-> disabled,
                  available |-> avail, monitor_id |-> id,
                  monitor_ids |-> ids, requested |-> << >>,
                  capture_handles |-> << >>, api_task |-> FALSE,
                  result |-> "none"]

bootRest == << clock, storeVars, events, cfgVars, loopVars, mainVars,
               backoffVars, detectorVars, searchVars, pruneVars, fetchVars,
               extractVars, windowVars >>

\* error!("no monitors detected ..."); return Ok(())
NoMonitors(b) == [b EXCEPT !.pc = "exited", !.result = "Ok"]

\* AppConfig::from_env()? and SqliteSink::from_app_config(..).await?: either
\* may fail, and main returns the error
MainConfig ==
    /\ boot.pc = "config"
    /\ \E ok \in BOOLEAN :
          boot' = IF ~ok THEN [boot EXCEPT !.pc = "exited", !.result = "Err"]
                  ELSE IF boot.capture_disabled
                       THEN [boot EXCEPT !.pc = "api"]
                       ELSE [boot EXCEPT !.pc = "discover"]
    /\ UNCHANGED bootRest

\* list_monitors().await.unwrap_or_default() (a failure reads as no monitor),
\* the reconciliation of the configured ids with the available ones, and
\* the fallback to available_ids[0]
MainDiscover ==
    /\ boot.pc = "discover"
    /\ \E ok \in BOOLEAN :
          LET available == IF ok THEN boot.available ELSE {}
              wanted == IF boot.monitor_ids = << >>
                        THEN << boot.monitor_id >> ELSE boot.monitor_ids
              kept == SelectSeq(wanted, LAMBDA id : id \in available)
          IN  IF available = {}
              THEN boot' = NoMonitors(boot)
              ELSE \E fallback \in available :
                      boot' = [boot EXCEPT
                                  !.pc = "start_capture",
                                  !.requested = IF kept = << >>
                                                THEN << fallback >>
                                                ELSE kept]
    /\ UNCHANGED bootRest

\* start_capture(cfg, ..).await? for the next requested monitor: the loop is
\* spawned and its handle kept
MainStartCapture ==
    /\ boot.pc = "start_capture"
    /\ LET n == Len(boot.capture_handles) + 1
       IN  boot' = [boot EXCEPT
                       !.capture_handles = Append(@, boot.requested[n]),
                       !.pc = IF n = Len(boot.requested) THEN "api" ELSE @]
    /\ UNCHANGED bootRest

\* start_api_server(..): the server task is spawned; main goes on to
\* signal::ctrl_c().await
MainStartApi ==
    /\ boot.pc = "api"
    /\ boot' = [boot EXCEPT !.api_task = TRUE, !.pc = "serving"]
    /\ UNCHANGED bootRest

BootNext == MainConfig \/ MainDiscover \/ MainStartCapture \/ MainStartApi

BootSpec == BootInit /\ [][BootNext]_vars

\* ---- extract_browser_url --------------------------------------------------
\* the needles a browser's app name contains
browsers ==
    { <<"c", "h", "r", "o", "m", "e">>, <<"e", "d", "g", "e">>,
      <<"f", "i", "r", "e", "f", "o", "x">>, <<"b", "r", "a", "v", "e">>,
      <<"o", "p", "e", "r", "a">>, <<"v", "i", "v", "a", "l", "d", "i">>,
      <<"a", "r", "c">> }

\* str continues with sub after position i
HasAt(str, i, sub) ==
    /\ i + Len(sub) <= Len(str)
    /\ \A k \in 1 .. Len(sub) : str[i + k] = sub[k]

\* the length of the scheme https?:// after position i, or 0; the pattern
\* goes on only if a non-whitespace character follows
SchemeAt(str, i) ==
    LET n == IF HasAt(str, i, <<"h", "t", "t", "p", "s", ":", "/", "/">>)
             THEN 8
             ELSE IF HasAt(str, i, <<"h", "t", "t", "p", ":", "/", "/">>)
                  THEN 7 ELSE 0
    IN  IF n > 0 /\ i + n < Len(str) /\ ~IsWhitespace(str[i + n + 1])
        THEN n ELSE 0

\* \S+ is greedy: the last position of the run of non-whitespace from j
RECURSIVE RunEnd(_, _)
RunEnd(str, j) ==
    IF j < Len(str) /\ ~IsWhitespace(str[j + 1]) THEN RunEnd(str, j + 1)
    ELSE j

\* URL_RE.find(title): the leftmost match of https?://\S+
URL_RE_find(title) ==
    LET starts == {i \in 0 .. Len(title) - 1 : SchemeAt(title, i) > 0}
    IN  IF starts = {} THEN None
        ELSE LET i == CHOOSE m \in starts : \A o \in starts : m <= o
             IN  Some(SubSeq(title, i + 1,
                             RunEnd(title, i + SchemeAt(title, i))))

\* while let Some(last) = url.chars().last() { if ",.;)]}>\"'".contains(last)
\* { url.pop() } else { break } }
RECURSIVE PopTrailing(_)
PopTrailing(url) ==
    IF url # << >>
       /\ url[Len(url)] \in {",", ".", ";", ")", "]", "}", ">", "\"", "'"}
    THEN PopTrailing(SubSeq(url, 1, Len(url) - 1))
    ELSE url

extract_browser_url(is_focused, app_name, window_title) ==
    IF ~is_focused THEN None
    ELSE IF ~\E needle \in browsers : Contains(to_lowercase(app_name), needle)
    THEN None
    ELSE LET m == URL_RE_find(window_title)
         IN  IF m = None THEN None
             ELSE IF PopTrailing(m[1]) = << >> THEN None
             ELSE Some(PopTrailing(m[1]))

\* ---- save_image_to_disk and process_windows_for_ocr -------------------------
\* an integer formatted by {} (Display): its decimal digits
RECURSIVE to_string(_)
to_string(n) ==
    IF n < 0 THEN <<"-">> \o to_string(0 - n)
    ELSE IF n < 10
    THEN << <<"0", "1", "2", "3", "4", "5", "6", "7", "8", "9">>[n + 1] >>
    ELSE to_string(n \div 10) \o to_string(n % 10)

\* config.image_dir
image_dir == <<"d">>

\* base_dir.join(format!("frame_{}_{}_{}.png", timestamp_ms, frame_number,
\* idx)), as a string
image_file(base_dir, fn, ts, idx) ==
    base_dir \o <<"/">> \o <<"f", "r", "a", "m", "e", "_">> \o to_string(ts)
    \o <<"_">> \o to_string(fn) \o <<"_">> \o to_string(idx)
    \o <<".", "p", "n", "g">>

\* the record pushed when save_image_to_disk returned Err
WriteFailedRecord(window) ==
    [window_name |-> window.window_name, app_name |-> window.app_name,
     text |-> << >>, confidence |-> None, browser_url |-> None,
     image_base64 |-> None, ocr_json |-> None, image_path |-> None]

OcrRecordNoPath(window, ocr_result, path) ==
    [window_name |-> window.window_name, app_name |-> window.app_name,
     text |-> IF ocr_result = None THEN << >> ELSE ocr_result[1].text,
     confidence |-> IF ocr_result = None THEN None
                    ELSE ocr_result[1].confidence,
     browser_url |-> extract_browser_url(window.is_focused, window.app_name,
                                         window.window_name),
     image_base64 |-> None,
     ocr_json |-> IF ocr_result = None THEN None ELSE ocr_result[1].json,
     image_path |-> IF ocr_result = None THEN None ELSE Some(path)]

\* the record pushed after the OCR call; ocr_result is None when recognize
\* returned Err
OcrRecord(window, ocr_result, path) ==
    [window_name |-> window.window_name, app_name |-> window.app_name,
     text |-> IF ocr_result = None THEN << >> ELSE ocr_result[1].text,
     confidence |-> IF ocr_result = None THEN None
                    ELSE ocr_result[1].confidence,
     browser_url |-> extract_browser_url(window.is_focused, window.app_name,
                                         window.window_name),
     image_base64 |-> None,
     ocr_json |-> IF ocr_result = None THEN None ELSE ocr_result[1].json,
     image_path |-> Some(path)]

SameIdx(idx) == idx

\* idx = idx.saturating_add(1), on the path of a failed write
AfterFailedWrite(idx) == idx + 1

\* .bind(window.text.clone()): a String bound to the nullable column text
\* is a value, never NULL
BindText(str) == Some(str)

\* the for loop over the windows, from window i on; idx counts the windows
\* seen, st holds the records pushed, the indexes of the windows the OCR
\* engine was called for and the files written
RECURSIVE ProcessFrom(_, _, _, _, _, _, _)
ProcessFrom(wins, outs, i, idx, fn, ts, st) ==
    IF i > Len(wins) THEN st
    ELSE IF ~outs[i].write
    THEN ProcessFrom(wins, outs, i + 1, AfterFailedWrite(idx), fn, ts,
             [st EXCEPT !.records = Append(@, WriteFailedRecord(wins[i]))])
    ELSE LET path == image_file(image_dir, fn, ts, idx)
         IN  ProcessFrom(wins, outs, i + 1, idx + 1, fn, ts,
                 [records |-> Append(st.records,
                                     OcrRecord(wins[i], outs[i].ocr, path)),
                  recognized |-> Append(st.recognized, i),
                  files |-> Append(st.files, path)])

\* ---- process_windows_for_ocr, call by call ----------------------------------
AppNames == { <<"A", "r", "c">>, <<"c", "a", "t">> }

WindowTitles ==
    { <<"a">>,
      <<"h", "t", "t", "p", ":", "/", "/", "a">>,
      <<"b", " ", "h", "t", "t", "p", "s", ":", "/", "/", "a", ")", ".", " ",
        "t">>,
      <<"h", "t", "t", "p", "s", ":", "/", "/">> }

\* the windows the platform captured
CapturedWindows ==
    [is_focused : BOOLEAN, app_name : AppNames, window_name : WindowTitles]

\* what the OCR engine returns when it succeeds
OcrPayloads ==
    { [text |-> <<"a">>, confidence |-> Some(1), json |-> Some(<<"b">>)],
      [text |-> << >>, confidence |-> None, json |-> None] }

\* the outcome of one window: the write of its file and, if that succeeded,
\* the result of the OCR call
WindowOutcomes ==
    {[write |-> FALSE, ocr |-> None]}
    \cup {[write |-> TRUE, ocr |-> o] :
             o \in {None} \cup {Some(pl) : pl \in OcrPayloads}}

DispatchInit ==
    /\ TasksIdle /\ StoreEmpty /\ BackoffIdle /\ DetectorIdle /\ SearchIdle
    /\ PruneIdle /\ FetchIdle /\ ExtractIdle /\ BootIdle /\ FilterIdle
    /\ \E fn \in 0 .. MaxDispatchFrame, ts \in 0 .. MaxDispatchClock :
          dispatched = [called |-> FALSE, frame_number |-> fn,
                        timestamp_ms |-> ts, windows |-> << >>,
                        outcomes |-> << >>, records |-> << >>,
                        recognized |-> << >>, files |-> << >>]

\* process_windows_for_ocr(&raw_capture.windows, .., frame_number,
\* timestamp_ms, &config.image_dir).await
Dispatch ==
    /\ ~dispatched.called
    /\ \E n \in 0 .. MaxDispatchWindows :
         \E wins \in [1 .. n -> CapturedWindows],
            outs \in [1 .. n -> WindowOutcomes] :
            LET st == ProcessFrom(wins, outs, 1, 0, dispatched.frame_number,
                                  dispatched.timestamp_ms,
                                  [records |-> << >>, recognized |-> << >>,
                                   files |-> << >>])
            IN  dispatched' = [dispatched EXCEPT
                                  !.called = TRUE,
                                  !.windows = wins,
                                  !.outcomes = outs,
                                  !.records = st.records,
                                  !.recognized = st.recognized,
                                  !.files = st.files]
    /\ UNCHANGED << clock, storeVars, events, cfgVars, loopVars, mainVars,
                    backoffVars, detectorVars, searchVars, pruneVars,
                    fetchVars, extractVars, bootVars, filtered >>

DispatchNext == Dispatch

DispatchSpec == DispatchInit /\ [][DispatchNext]_vars

\* ---- WindowFilters ----------------------------------------------------------
\* WindowFilters::new(ignore_list, include_list): the terms, lowercased, as
\* sets
WindowFiltersNew(ignore_list, include_list) ==
    [ignore_set |-> {to_lowercase(t) : t \in ignore_list},
     include_set |-> {to_lowercase(t) : t \in include_list}]

is_valid_include_first(f, app_name, title) ==
    LET app_name_lower == to_lowercase(app_name)
        title_lower == to_lowercase(title)
    IN  IF f.include_set # {}
           /\ \E include \in f.include_set :
                 Contains(app_name_lower, include)
                 \/ Contains(title_lower, include)
        THEN TRUE
        ELSE ~\E ignore \in f.ignore_set :
                 Contains(app_name_lower, ignore)
                 \/ Contains(title_lower, ignore)

\* WindowFilters::is_valid(&self, app_name, title)
is_valid(f, app_name, title) ==
    LET app_name_lower == to_lowercase(app_name)
        title_lower == to_lowercase(title)
    IN  IF f.ignore_set # {}
           /\ \E ignore \in f.ignore_set :
                 Contains(app_name_lower, ignore)
                 \/ Contains(title_lower, ignore)
        THEN FALSE
        ELSE IF f.include_set = {} THEN TRUE
        ELSE \E include \in f.include_set :
                 Contains(app_name_lower, include)
                 \/ Contains(title_lower, include)

\* the terms of MEMRI_WINDOW_IGNORE and MEMRI_WINDOW_INCLUDE
FilterTerms == { <<"A", "r", "c">>, <<"a", "b">>, <<"t">> }

\* the filters are built; a window with its app name and title arrives
FilterInit ==
    /\ TasksIdle /\ StoreEmpty /\ BackoffIdle /\ DetectorIdle /\ SearchIdle
    /\ PruneIdle /\ FetchIdle /\ ExtractIdle /\ BootIdle /\ DispatchIdle
    /\ \E ignore_list \in SUBSET FilterTerms,
          include_list \in SUBSET FilterTerms,
          app_name \in AppNames,
          title \in { <<"b">>, <<"T", "a", "b">>, <<"e">> } :
          LET f == WindowFiltersNew(ignore_list, include_list)
          IN  filtered = [called |-> FALSE, ignore |-> f.ignore_set,
                          include |-> f.include_set, app_name |-> app_name,
                          title |-> title, valid |-> FALSE]

\* window_filters.is_valid(&app_name, &title)
FilterCall ==
    /\ ~filtered.called
    /\ filtered' = [filtered EXCEPT
                       !.called = TRUE,
                       !.valid = is_valid([ignore_set |-> filtered.ignore,
                                           include_set |-> filtered.include],
                                          filtered.app_name, filtered.title)]
    /\ UNCHANGED << clock, storeVars, events, cfgVars, loopVars, mainVars,
                    backoffVars, detectorVars, searchVars, pruneVars,
                    fetchVars, extractVars, bootVars, dispatched >>

FilterSpec == FilterInit /\ [][FilterCall]_vars

\* ---- one capture loop, fed with frames ---------------------------------------
BaselineIfPersisted(signature, prev, d, failed) ==
    IF failed THEN prev ELSE StoredPrevious(signature, prev, d)

\* self.previous after an iteration: evaluate has stored the signature before
\* the batch is built and persisted
BaselineAfter(signature, prev, d, failed) == StoredPrevious(signature, prev, d)

\* the loop of monitor 1 has started, on an empty store, pruning off
ContentInit ==
    /\ TasksIdle /\ StoreEmpty /\ BackoffIdle /\ DetectorIdle /\ SearchIdle
    /\ PruneIdle /\ FetchIdle /\ ExtractIdle /\ BootIdle /\ WindowsIdle

\* one tick of the loop of monitor 1, from the sleep to the next sleep:
\* the platform fails or delivers a frame, evaluate compares it with the
\* stored signature, an Insignificant frame is skipped, any other is
\* persisted, which succeeds (row, event, frame_number + 1) or fails
IterateFrame ==
    /\ Len(iterated) < MaxEvaluations
    /\ \/ /\ iterated' = Append(iterated, "capture_failed")
          /\ backoff' = [backoff EXCEPT ![1] = BackoffOnError(@)]
          /\ UNCHANGED << previous, evaluated, returned, has_prev,
                          frame_number, storeVars, events, written >>
       \/ \E image \in Frames, failed \in BOOLEAN :
             LET signature == FrameSignature(image)
                 d == Decide(signature, previous)
                 skipped == d.kind = "Insignificant"
                 b == [frame_number |-> frame_number[1],
                       timestamp_ms |-> current_time_ms(clock), nwin |-> 0]
             IN  /\ returned' = d
                 /\ evaluated' = Append(evaluated, image)
                 /\ previous' = BaselineAfter(signature, previous, d,
                                              ~skipped /\ failed)
                 /\ has_prev' = [has_prev EXCEPT ![1] = TRUE]
                 /\ iterated' = Append(iterated,
                        IF skipped THEN "skipped"
                        ELSE IF failed THEN "persist_failed"
                        ELSE "persisted")
                 /\ backoff' = [backoff EXCEPT ![1] =
                        IF ~skipped /\ failed THEN BackoffOnError(@)
                        ELSE BackoffRecord(@, d.kind)]
                 /\ IF skipped \/ failed
                    THEN UNCHANGED << frame_number, storeVars, events,
                                      written >>
                    ELSE /\ captures' = captures
                                \cup {CaptureRow(next_id, b, 1)}
                         /\ next_id' = next_id + 1
                         /\ events' = Append(events, CaptureEvent(b, 1))
                         /\ frame_number' =
                                [frame_number EXCEPT ![1] = @ + 1]
                         /\ written' = [written EXCEPT
                                ![1] = Append(@, b.frame_number)]
                         /\ UNCHANGED windows
    /\ UNCHANGED << clock, cfgVars, pc, elapsed, batch, decision, capture_id,
                    widx, cutoff, total, mainVars, backoffVars, searchVars,
                    pruneVars, fetchVars, extractVars, bootVars, windowVars >>

ContentSpec == ContentInit /\ [][IterateFrame]_vars

\* ---- the loops from the interrupt on, with a fair scheduler -----------------
\* a step of the task of loop l, pruning off
StopStep(l) ==
    \/ TimerFire(l)
    \/ SelectShutdown(l)
    \/ SelectTick(l)
    \/ InsertCapture(l)
    \/ InsertWindow(l)

StopNext ==
    \/ CtrlC
    \/ MainShutdown
    \/ MainReturn
    \/ \E l \in Loops : StopStep(l)

\* the runtime polls every task that can make a step and timers fire; a
\* select! that finds a message waiting again and again takes the branch of
\* the message at some time (it picks among its ready branches at random)
StopSpec ==
    /\ ContentInit
    /\ [][StopNext]_vars
    /\ \A l \in Loops : WF_vars(StopStep(l)) /\ SF_vars(SelectShutdown(l))

\* ---- the capture loops with longer intervals, pruning off -----------------
\* with the longest of these intervals record(Insignificant) and on_error
\* lead from the base delay to different delays
TickInit ==
    /\ \E interval \in 1 .. TickIntervalMs :
          LoopsStarted(interval, TickMaxIntervalMs)
    /\ BackoffIdle /\ DetectorIdle /\ SearchIdle /\ PruneIdle
    /\ FetchIdle /\ ExtractIdle /\ BootIdle /\ WindowsIdle
    /\ StoreEmpty
    /\ clock = 0
    /\ retention_days = 0
    /\ max_captures = 0

\* the capture loops on a fresh database, for every configuration of the
\* sink, up to the interrupt
RunSpec == Init /\ [][RunNext]_vars

\* the steps of the loops while main serves, prune having nothing to do
TickNext ==
    \E l \in Loops :
        \/ TimerFire(l)
        \/ SelectTick(l)
        \/ InsertCapture(l)
        \/ InsertWindow(l)

TickSpec == TickInit /\ [][TickNext]_vars

\* the whole program, interrupt and shutdown included
ShutdownSpec == ShutdownInit /\ [][Next]_vars

\* ======================= properties ======================================

\* ---- C1 ------------------------------------------------------------------
\* C1: a capture row is in the store only together with every window row of
\* its batch, in every state a reader can observe and after persist_batch
\* has returned an error.
BatchAtomic ==
    \A c \in captures :
        \A i \in 0 .. (c.nwin - 1) : WindowRow(c.id, i) \in windows

\* ---- C2 ------------------------------------------------------------------
\* C2: the frame_numbers of the capture rows one loop has inserted are, in
\* insertion order, 0, 1, 2, ... without repetition or gap.
FrameNumbersGapless ==
    \A l \in Loops :
        \A i \in 1 .. Len(written[l]) : written[l][i] = i - 1

\* ---- C3 ------------------------------------------------------------------
\* a step in which the notifying sink's persist_batch returns Ok to loop l
\* (the loop counts the frame as captured)
ReturnsOk(l) ==
    /\ pc[l] \in IterPcs
    /\ pc'[l] = "select"
    /\ frame_number'[l] = frame_number[l] + 1

\* C3: a step in which persist_batch returns success sends exactly one event,
\* carrying the frame_number, timestamp_ms and window count of the batch, and
\* no other step sends an event.
EventPerSuccess ==
    [][\/ \E l \in Loops :
            /\ ReturnsOk(l)
            /\ events' = Append(events,
                   [type |-> "capture",
                    frame_number |-> batch[l].frame_number,
                    timestamp_ms |-> batch[l].timestamp_ms,
                    windows |-> batch[l].nwin, src |-> l])
       \/ /\ \A l \in Loops : ~ReturnsOk(l)
          /\ events' = events]_vars

\* a batch with a window has been committed and its event is in the channel
EventSent ==
    \E l \in Loops, i \in 1 .. Len(events) :
        /\ frame_number[l] > 0
        /\ events[i].src = l
        /\ events[i].windows > 0

\* ---- C4 ------------------------------------------------------------------
\* C4, for cap pruning (retention off): while a batch is in progress (parent
\* row inserted, window rows not yet all inserted) its capture row is in the
\* store: no pruning deletes it.
InFlightParentKept ==
    retention_days = 0 =>
        \A l \in Loops :
            pc[l] = "insert_windows" => capture_id[l] \in CaptureIds(captures)

\* ---- C5 ------------------------------------------------------------------
\* C5: with max_captures = M > 0, when the DELETE of the cap section of a
\* prune call has run and prune returns, the captures table holds at most M
\* rows.
CapAfterPrune ==
    [][\A l \in Loops :
          ( /\ max_captures > 0
            /\ pc[l] = "prune_delete"
            /\ pc'[l] = "select"
            /\ captures' # captures )
          => Cardinality(captures') <= max_captures]_vars

\* ---- C6 ------------------------------------------------------------------
\* C6 as claimed: with retention_days = D > 0, when a prune call whose
\* retention DELETE has run returns, no capture row is older than the cutoff
\* that prune computed.
RetentionAtPruneReturn ==
    [][\A l \in Loops :
          ( /\ retention_days > 0
            /\ pc[l] \in {"prune_count", "prune_delete"}
            /\ pc'[l] = "select" )
          => \A c \in captures' : c.timestamp_ms >= cutoff[l]]_vars

\* C6 as amended: with retention_days = D > 0, right after the retention
\* DELETE of prune has removed rows, no capture row has timestamp_ms smaller
\* than (the clock value prune read) - D * 86,400,000, and no window row of a
\* deleted capture is left.
RetentionAtDelete ==
    [][\A l \in Loops :
          ( /\ retention_days > 0
            /\ pc[l] = "prune_retention"
            /\ pc'[l] # "prune_retention"
            /\ captures' # captures )
          => /\ \A c \in captures' :
                   c.timestamp_ms >=
                       current_time_ms(clock') - retention_days * DayMs
             /\ \A w \in windows' :
                   w.capture_id \notin
                       CaptureIds(captures) \ CaptureIds(captures')]_vars

\* the retention DELETE of a loop's prune has deleted the capture that loop
\* had just written, with its window row
RetentionDeleted ==
    /\ retention_days > 0
    /\ \E l \in Loops :
          /\ pc[l] = "prune_count"
          /\ widx[l] > 0
          /\ batch[l].timestamp_ms < cutoff[l]
          /\ capture_id[l] \notin CaptureIds(captures)

\* ---- C7 ------------------------------------------------------------------
\* C7: every captured_windows row references an existing captures row.
WindowsHaveParent ==
    \A w \in windows : w.capture_id \in CaptureIds(captures)

\* pruning has deleted a capture that had a window row, while another
\* capture and its window row are in the store
PrunedWithWindows ==
    /\ windows # {}
    /\ \E l \in Loops :
          /\ pc[l] \in PrunePcs
          /\ widx[l] > 0
          /\ capture_id[l] \notin CaptureIds(captures)

\* ---- C8 ------------------------------------------------------------------
\* a step in which loop l leaves the select by its sleep branch
Ticks(l) ==
    /\ pc[l] = "select"
    /\ elapsed[l]
    /\ ~elapsed'[l]
    /\ pc'[l] # "done"

\* C8: a loop whose shutdown signal arrived while it was sleeping runs no
\* further iteration.
NoTickAfterSignalInSleep ==
    [][\A l \in Loops : signalled_in[l] = "sleeping" => ~Ticks(l)]_vars

\* ---- C9 ------------------------------------------------------------------
\* C9: an iteration that was running when the shutdown signal arrived runs
\* to completion: when the process ends, the loop is not inside an iteration.
SignalledIterationCompletes ==
    main_pc = "returned" =>
        \A l \in Loops : signalled_in[l] = "iterating" => pc[l] \notin IterPcs

\* ---- C10 -----------------------------------------------------------------
\* C10: when main returns after the interrupt, every capture loop has
\* terminated.
LoopsDrainedAtExit ==
    main_pc = "returned" => \A l \in Loops : pc[l] = "done"

\* ---- C11 -----------------------------------------------------------------
\* a step in which persist_batch returns an error to loop l: the INSERT INTO
\* captures or an INSERT INTO captured_windows did not execute
ReturnsErr(l) ==
    /\ pc'[l] = "select"
    /\ \/ pc[l] = "insert_capture" /\ captures' = captures
       \/ pc[l] = "insert_windows" /\ windows' = windows

\* C11: when persist_batch returns an error, the loop keeps its frame_number,
\* no event is sent, and the backoff is the one on_error gives, not the one
\* record gives for the decision of the iteration.
PersistErrorHandled ==
    [][\A l \in Loops :
          ReturnsErr(l) =>
              /\ frame_number'[l] = frame_number[l]
              /\ events' = events
              /\ backoff'[l] = BackoffOnError(backoff[l])
              /\ backoff'[l] # BackoffRecord(backoff[l], decision[l])]_vars

\* a loop is back at its select after a persist_batch that failed behind the
\* INSERT of the parent row: no frame counted, no event, delay raised
PersistFailed ==
    /\ events = << >>
    /\ \E l \in Loops :
          /\ pc[l] = "select"
          /\ Len(written[l]) = 1
          /\ frame_number[l] = 0
          /\ backoff[l].current > backoff[l].base

\* ---- C12 -----------------------------------------------------------------
\* C12: for every base and max given to Backoff::new and after every sequence
\* of record and on_error calls, base <= current <= max; right after
\* record(Significant) or record(FirstFrame), and right after new, current
\* equals base.
BackoffWithinBounds ==
    bk_call # "none" =>
        /\ bk.base <= bk.current
        /\ bk.current <= bk.max
        /\ bk_call \in {"new", "Significant", "FirstFrame"} =>
               bk.current = bk.base

\* record(Insignificant) has raised the delay to the maximum, which is
\* above the base and not a value that 1.5 * current rounds to
BackoffClamped ==
    /\ bk_call = "Insignificant"
    /\ bk.base > 0
    /\ bk.current = bk.max
    /\ bk.max = MaxDelayMs
    /\ bk.base = MaxBaseMs

\* ---- C13 -----------------------------------------------------------------
\* C13: an evaluate call returns FirstFrame if and only if it is the first
\* call on the detector.
FirstFrameOnlyFirst ==
    returned.kind # "none" =>
        (returned.kind = "FirstFrame" <=> Len(evaluated) = 1)

\* the second call, with the frame of the first call again, has compared
\* the two and found no change
SameFrameAgain ==
    /\ Len(evaluated) = 2
    /\ evaluated[1] = evaluated[2]
    /\ returned.kind = "Insignificant"

\* ---- C14 -----------------------------------------------------------------
\* C14: after every evaluate call the stored signature is the one of the
\* frame just evaluated, and the decision of a call is the comparison with
\* the frame of the call before it, whatever that call returned.
PreviousIsLastEvaluated ==
    LET n == Len(evaluated)
    IN  /\ n >= 1 => previous = Some(FrameSignature(evaluated[n]))
        /\ n >= 2 => returned = Decide(FrameSignature(evaluated[n]),
                                       Some(FrameSignature(evaluated[n - 1])))

\* the second call returned Insignificant, and the third call's result is
\* not what a comparison with the frame of the first call gives
ComparedWithSkippedFrame ==
    /\ Len(evaluated) = 3
    /\ Decide(FrameSignature(evaluated[2]),
              Some(FrameSignature(evaluated[1]))).kind = "Insignificant"
    /\ returned # Decide(FrameSignature(evaluated[3]),
                         Some(FrameSignature(evaluated[1])))

\* ---- C15 -----------------------------------------------------------------
\* C15: a call after the first reports the histogram distance and the SSIM
\* score of its frame against the frame of the call before it, and returns
\* Significant if the distance is at least 0.08 or the score at most 0.92,
\* Insignificant otherwise.
DecisionByThresholds ==
    LET n == Len(evaluated)
    IN  n >= 2 =>
          LET cur == FrameSignature(evaluated[n])
              old == FrameSignature(evaluated[n - 1])
              hd == histogram_distance(cur.histogram, old.histogram)
              ss == compute_ssim(cur.ssim_sample, old.ssim_sample)
          IN  /\ returned.histogram_delta = hd
              /\ returned.ssim_score = ss
              /\ returned.kind \in {"Significant", "Insignificant"}
              /\ returned.kind = "Significant" <=>
                     \/ 100 * hd.num >= 8 * hd.den
                     \/ SsimLeq(ss, 92, 100)

\* a frame with the histogram of the frame before it was found Significant,
\* by its SSIM score alone
SignificantBySsimAlone ==
    /\ Len(evaluated) >= 2
    /\ returned.kind = "Significant"
    /\ returned.histogram_delta.num = 0
    /\ SsimLeq(returned.ssim_score, 92, 100)

\* ---- C16 .. C19: what the claims say of a search -------------------------
\* the four searched columns of a window row, lowercased (NULL left out)
LoweredColumns(w) ==
    {to_lowercase(w.text), to_lowercase(w.window_name),
     to_lowercase(w.app_name)}
    \cup (IF w.browser_url = None THEN {}
          ELSE {to_lowercase(w.browser_url[1])})

\* the terms of a query: its whitespace-split pieces of more than one byte,
\* lowercased
TermsOf(q) ==
    {to_lowercase(split_whitespace(q)[k]) :
        k \in {j \in DOMAIN split_whitespace(q) :
                  StrLen(split_whitespace(q)[j]) > 1}}

\* a column of window w contains a term of q
WindowHasTerm(w, q) ==
    \E t \in TermsOf(q), col \in LoweredColumns(w) : Contains(col, t)

\* timestamp ts lies within the bounds that were supplied
WithinBounds(ts, start, end) ==
    /\ start # None => ts >= start[1]
    /\ end # None => ts <= end[1]

\* ---- C16 -----------------------------------------------------------------
\* C16: every capture search_captures returns has a window with a column
\* that, lowercased, contains a term of the query as a substring, and has
\* its timestamp_ms within the supplied bounds.
SearchHitsContainTerm ==
    found.called =>
        \A i \in DOMAIN found.list :
            /\ \E w \in found.list[i].windows : WindowHasTerm(w, query)
            /\ WithinBounds(found.list[i].timestamp_ms, start_time_ms,
                            end_time_ms)

\* ---- C17 -----------------------------------------------------------------
\* C17: the list search_captures returns is ordered by timestamp_ms, newest
\* first, has at most limit entries, which are the newest of the captures
\* selected, and no capture twice.
SearchNewestFirstLimited ==
    found.called =>
        LET list == found.list
            ids == {list[i].capture_id : i \in DOMAIN list}
            selected == SelectedCaptures(captures, windows,
                            SearchTerms(query), start_time_ms, end_time_ms)
        IN  /\ \A i, j \in DOMAIN list :
                   i < j => list[i].timestamp_ms >= list[j].timestamp_ms
            /\ Len(list) <= limit
            /\ Cardinality(ids) = Len(list)
            /\ \A i \in DOMAIN list : \A c \in selected :
                   c.id \notin ids => list[i].timestamp_ms >= c.timestamp_ms

\* ---- C18 -----------------------------------------------------------------
\* C18: when the captures that are within the time bounds and have a window
\* with a column containing any one term of the query are no more than
\* limit, search_captures returns every one of them.
SearchFindsEveryMatch ==
    found.called =>
        LET matching ==
                {c \in captures :
                    /\ WithinBounds(c.timestamp_ms, start_time_ms,
                                    end_time_ms)
                    /\ \E w \in windows :
                          w.capture_id = c.id /\ WindowHasTerm(w, query)}
        IN  Cardinality(matching) <= limit =>
                \A c \in matching :
                    \E i \in DOMAIN found.list :
                        found.list[i].capture_id = c.id

\* ---- C19 -----------------------------------------------------------------
\* C19 as claimed: a query whose whitespace-split pieces all have at most
\* one character gets an empty result.
SearchShortTermsEmpty ==
    ( /\ found.called
      /\ \A k \in DOMAIN split_whitespace(query) :
             Len(split_whitespace(query)[k]) <= 1 )
    => found.list = << >>

\* C19 as amended: a query whose whitespace-split pieces all have at most
\* one byte (in UTF-8) gets an empty result, for every store, time bounds
\* and limit.
SearchShortBytesEmpty ==
    ( /\ found.called
      /\ \A k \in DOMAIN split_whitespace(query) :
             StrLen(split_whitespace(query)[k]) <= 1 )
    => found.list = << >>

\* a query of one-letter pieces was searched, without time bounds and with
\* a positive limit, in a store where a window text contains the letter
SearchedSingleLetters ==
    /\ found.called
    /\ found.list = << >>
    /\ limit > 0
    /\ start_time_ms = None /\ end_time_ms = None
    /\ Len(split_whitespace(query)) = 2
    /\ \A k \in DOMAIN split_whitespace(query) :
           /\ StrLen(split_whitespace(query)[k]) = 1
           /\ \E w \in windows :
                 Contains(to_lowercase(w.text),
                          to_lowercase(split_whitespace(query)[k]))

\* ---- C20 -----------------------------------------------------------------
\* C20: with max_captures = M set and N > M captures in the table, the cap
\* DELETE of prune removes exactly the N - M captures of smallest
\* timestamp_ms and leaves the M newest.
CapKeepsNewest ==
    [][\A l \in Loops :
          ( /\ max_captures > 0
            /\ pc[l] = "prune_delete"
            /\ pc'[l] = "select"
            /\ captures' # captures )
          => /\ captures' \subseteq captures
             /\ Cardinality(captures \ captures')
                    = Cardinality(captures) - max_captures
             /\ Cardinality(captures') = max_captures
             /\ \A c \in captures \ captures' : \A d \in captures' :
                    c.timestamp_ms <= d.timestamp_ms]_vars

\* ---- C21 -----------------------------------------------------------------
\* a step in which a statement of prune fails for loop l: the retention
\* DELETE (on success prune would go on to the count), the COUNT (read as 0
\* although more than max_captures rows are there) or the cap DELETE (no row
\* deleted although the table is not empty)
PruneStatementFailed(l) ==
    /\ pc'[l] = "select"
    /\ \/ pc[l] = "prune_retention" /\ max_captures > 0
       \/ pc[l] = "prune_count" /\ Cardinality(captures) > max_captures
       \/ pc[l] = "prune_delete" /\ captures # {} /\ captures' = captures

FetchNewestFirst ==
    fetched.called =>
        LET list == fetched.list
            ids == {list[i].capture_id : i \in DOMAIN list}
        IN  /\ fetched.limit <= 0 => list = << >>
            /\ Len(list) = Min(Max(fetched.limit, 0), Cardinality(captures))
            /\ Cardinality(ids) = Len(list)
            /\ \A i, j \in DOMAIN list :
                   i < j => list[i].timestamp_ms >= list[j].timestamp_ms
            /\ \A i \in DOMAIN list :
                   /\ \E c \in captures :
                         /\ c.id = list[i].capture_id
                         /\ c.timestamp_ms = list[i].timestamp_ms
                         /\ c.frame_number = list[i].frame_number
                   /\ \A c \in captures :
                         c.id \notin ids =>
                             c.timestamp_ms <= list[i].timestamp_ms
                   /\ {w.idx : w \in list[i].windows}
                         = {w.idx : w \in {v \in windows :
                                v.capture_id = list[i].capture_id}}
                   /\ \A w \in list[i].windows :
                         /\ w.capture_id = list[i].capture_id
                         /\ w.image_base64 = None

\* two of three captures were fetched; the first of the list is the newer
\* one and has the larger id, so the list is not in the ascending id order
\* of the map; both have two windows, stored with an image
FetchedOutOfIdOrder ==
    /\ fetched.called
    /\ fetched.limit = 2
    /\ Len(fetched.list) = 2
    /\ fetched.list[1].capture_id > fetched.list[2].capture_id
    /\ fetched.list[1].timestamp_ms > fetched.list[2].timestamp_ms
    /\ \A i \in 1 .. 2 : Cardinality(fetched.list[i].windows) = 2

\* ---- C24 -----------------------------------------------------------------
\* C24: of two capture rows inserted by the same loop, the one inserted
\* later (the batch built later) has a timestamp_ms that is not smaller.
TimestampsNeverDecrease ==
    \A c, d \in captures :
        (c.loop = d.loop /\ c.id < d.id) => c.timestamp_ms <= d.timestamp_ms

\* ---- C25 -----------------------------------------------------------------
\* C25: every token of the query string built from the user text is
\* lowercase, begins and ends with an alphanumeric character, is longer
\* than 2 characters and is no stop word, and no token occurs twice.
QueryTokensClean ==
    extracted.called =>
        LET tokens == split_whitespace(extracted.terms)
        IN  /\ \A i \in DOMAIN tokens :
                   /\ tokens[i] = to_lowercase(tokens[i])
                   /\ tokens[i] = trim_matches(tokens[i])
                   /\ Len(tokens[i]) > 2
                   /\ tokens[i] \notin stop_words
            /\ \A i, j \in DOMAIN tokens : i # j => tokens[i] # tokens[j]

\* ---- C26 -----------------------------------------------------------------
\* C26: when capture is not disabled and no monitor is available, main ends
\* with an error, having started no capture loop and no API server.
NoMonitorIsFatal ==
    ( /\ ~boot.capture_disabled
      /\ boot.available = {}
      /\ boot.pc \notin {"config", "discover"} )
    => /\ boot.pc = "exited"
       /\ boot.result = "Err"
       /\ boot.capture_handles = << >>
       /\ ~boot.api_task

\* ---- C27 -----------------------------------------------------------------
\* a step in which the tick of loop l ends without a call of the sink:
\* perform_iteration returned before it read the clock and before
\* process_windows_for_ocr (which writes the image files and calls the OCR
\* engine) built a batch
EndsWithoutBatch(l) ==
    /\ pc[l] = "select" /\ elapsed[l]
    /\ pc'[l] = "select" /\ ~elapsed'[l]

\* such a step in which the frame was judged Insignificant: the detector
\* had a previous frame and the delay is the one record(Insignificant) gives
SkipsInsignificant(l) ==
    /\ EndsWithoutBatch(l)
    /\ has_prev[l]
    /\ backoff'[l] = BackoffRecord(backoff[l], "Insignificant")

\* C27: an iteration whose frame is Insignificant inserts and deletes no row,
\* builds no batch (no image file, no OCR call), sends no event and leaves
\* frame_number as it was.
InsignificantChangesNothing ==
    [][\A l \in Loops :
          SkipsInsignificant(l) =>
              /\ captures' = captures
              /\ windows' = windows
              /\ next_id' = next_id
              /\ events' = events
              /\ frame_number' = frame_number
              /\ written' = written
              /\ batch' = batch
              /\ batch[l] = NoBatch
              /\ has_prev'[l]]_vars

\* loop 1 has captured its first frame and then skipped an Insignificant
\* one: its delay is 1.5 times the base, which on_error does not give
InsignificantSkipped ==
    /\ pc[1] = "select"
    /\ has_prev[1]
    /\ frame_number[1] = 1
    /\ backoff[1].current = RoundTimesOneAndHalf(backoff[1].base)
    /\ backoff[1].current # BackoffOnError(BackoffNew(backoff[1].base,
                                                     backoff[1].max)).current
    /\ Len(events) = 1
    /\ Cardinality(captures) = 1

\* ---- C28 -----------------------------------------------------------------
\* a tick of loop l that ends without a batch and is not the skip of an
\* Insignificant frame: platform::capture_frame failed
CaptureFailure(l) ==
    /\ EndsWithoutBatch(l)
    /\ ~SkipsInsignificant(l)

\* C28: when the platform frame capture fails, the detector, the store and
\* frame_number are unchanged, no event is emitted and backoff.on_error is
\* applied.
CaptureFailureSkipsIteration ==
    [][\A l \in Loops :
          CaptureFailure(l) =>
              /\ has_prev' = has_prev
              /\ captures' = captures
              /\ windows' = windows
              /\ next_id' = next_id
              /\ frame_number' = frame_number
              /\ events' = events
              /\ backoff'[l] = BackoffOnError(backoff[l])]_vars

\* the first tick of loop 1 failed in the platform capture: the detector
\* has no frame, nothing is stored and the delay is base + base
FirstCaptureFailed ==
    /\ pc[1] = "select"
    /\ ~has_prev[1]
    /\ backoff[1].current = backoff[1].base + backoff[1].base
    /\ backoff[1].current # RoundTimesOneAndHalf(backoff[1].base)
    /\ frame_number[1] = 0
    /\ events = << >>
    /\ captures = {}

\* ---- C29 -----------------------------------------------------------------
\* C29: record(Insignificant) sets current to min(max, round(1.5 * current)),
\* halves rounding up, for every current in [base, max].
RecordInsignificantRounds ==
    [][bk_call' = "Insignificant" =>
          bk'.current = Min(bk.max, (3 * bk.current + 1) \div 2)]_vars

\* ---- C30 -----------------------------------------------------------------
\* a step in which persist_batch of loop l fails: the sink returns without
\* an event having been sent
PersistFailure(l) ==
    /\ pc[l] \in {"insert_capture", "insert_windows"}
    /\ pc'[l] = "select"
    /\ events' = events

RecordsCarryBrowserUrl ==
    dispatched.called =>
        \A i \in 1 .. Len(dispatched.records) :
            dispatched.records[i].browser_url =
                extract_browser_url(dispatched.windows[i].is_focused,
                                    dispatched.windows[i].app_name,
                                    dispatched.windows[i].window_name)

\* ---- C32 -----------------------------------------------------------------
\* window i of the call was written and its OCR failed
OcrFailed(i) ==
    /\ dispatched.outcomes[i].write
    /\ dispatched.outcomes[i].ocr = None

\* C32: a window whose OCR failed still has its record, with empty text, no
\* confidence, no ocr_json and the path of the file written for it; every
\* window after it has its record too, and the OCR engine is called for each
\* of them that was written.
OcrFailureKeepsBatch ==
    dispatched.called =>
        \A i \in 1 .. Len(dispatched.windows) :
            OcrFailed(i) =>
                /\ Len(dispatched.records) = Len(dispatched.windows)
                /\ dispatched.records[i].window_name =
                       dispatched.windows[i].window_name
                /\ dispatched.records[i].text = << >>
                /\ dispatched.records[i].confidence = None
                /\ dispatched.records[i].ocr_json = None
                /\ dispatched.records[i].image_path # None
                /\ \E k \in 1 .. Len(dispatched.files) :
                       dispatched.records[i].image_path =
                           Some(dispatched.files[k])
                /\ \A j \in (i + 1) .. Len(dispatched.windows) :
                       /\ dispatched.records[j].window_name =
                              dispatched.windows[j].window_name
                       /\ dispatched.outcomes[j].write =>
                              \E k \in 1 .. Len(dispatched.recognized) :
                                  dispatched.recognized[k] = j

\* the OCR of the first of two windows failed and the second was recognized
OcrFailedThenRecognized ==
    /\ dispatched.called
    /\ Len(dispatched.windows) = 2
    /\ OcrFailed(1)
    /\ dispatched.outcomes[2].write
    /\ dispatched.outcomes[2].ocr # None
    /\ dispatched.records[2].text = <<"a">>
    /\ dispatched.recognized = <<1, 2>>

\* ---- C33 -----------------------------------------------------------------
\* C33: a window whose PNG could not be written has a record with null
\* image_path, text, confidence and ocr_json; the OCR engine is not called
\* for it, and every window after it has its record.
WriteFailureRecordsNulls ==
    dispatched.called =>
        \A i \in 1 .. Len(dispatched.windows) :
            ~dispatched.outcomes[i].write =>
                /\ Len(dispatched.records) = Len(dispatched.windows)
                /\ dispatched.records[i].image_path = None
                /\ BindText(dispatched.records[i].text) = None
                /\ dispatched.records[i].confidence = None
                /\ dispatched.records[i].ocr_json = None
                /\ \A k \in 1 .. Len(dispatched.recognized) :
                       dispatched.recognized[k] # i

\* ---- C34 -----------------------------------------------------------------
\* C34: the dispatcher returns one record per window, in the order of the
\* windows, and the file of window i (counted from 0) is named with idx = i,
\* whatever happened to the windows before it.
OneRecordPerWindow ==
    dispatched.called =>
        /\ Len(dispatched.records) = Len(dispatched.windows)
        /\ \A i \in 1 .. Len(dispatched.windows) :
              /\ dispatched.records[i].window_name =
                     dispatched.windows[i].window_name
              /\ dispatched.records[i].app_name =
                     dispatched.windows[i].app_name
              /\ dispatched.outcomes[i].write =>
                     dispatched.records[i].image_path =
                         Some(image_file(image_dir, dispatched.frame_number,
                                         dispatched.timestamp_ms, i - 1))

\* the write of the first of two different windows failed; the second was
\* written, for a timestamp of two digits
SecondWrittenAfterFailure ==
    /\ dispatched.called
    /\ Len(dispatched.windows) = 2
    /\ dispatched.windows[1].window_name # dispatched.windows[2].window_name
    /\ ~dispatched.outcomes[1].write
    /\ dispatched.outcomes[2].write
    /\ dispatched.timestamp_ms >= 10
    /\ Len(dispatched.files) = 1

\* ---- C35 -----------------------------------------------------------------
\* term occurs in the lowercased app name or in the lowercased title
TermMatches(term) ==
    \/ Contains(to_lowercase(filtered.app_name), term)
    \/ Contains(to_lowercase(filtered.title), term)

\* C35: a window is rejected if an ignore term occurs in its lowercased app
\* name or title; otherwise it is accepted if there is no include term, and
\* else exactly if an include term occurs; a window matching an ignore term
\* and an include term is rejected.
FiltersDecide ==
    filtered.called =>
        /\ (\E t \in filtered.ignore : TermMatches(t)) => ~filtered.valid
        /\ (~\E t \in filtered.ignore : TermMatches(t)) =>
               (filtered.valid <=>
                    (filtered.include = {}
                     \/ \E t \in filtered.include : TermMatches(t)))

\* a window that matches an ignore term and another include term was judged
IgnoredAndIncluded ==
    /\ filtered.called
    /\ \E t \in filtered.ignore, u \in filtered.include :
          t # u /\ TermMatches(t) /\ TermMatches(u)
    /\ ~filtered.valid

\* ---- C36 -----------------------------------------------------------------
\* the file process_windows_for_ocr names for the window of row w: the
\* timestamp and the frame number are those of its batch, kept in the
\* capture row c
ImageFileOfRow(w, c) ==
    image_file(image_dir, c.frame_number, c.timestamp_ms, w.idx)

\* C36: no two stored window rows have the same image file, whichever loops
\* wrote their batches into the one image_dir.
ImageFilesUnique ==
    \A w1, w2 \in windows :
        \A c1, c2 \in captures :
            (w1 # w2 /\ c1.id = w1.capture_id /\ c2.id = w2.capture_id) =>
                ImageFileOfRow(w1, c1) # ImageFileOfRow(w2, c2)

\* ---- C37 -----------------------------------------------------------------
\* a step of the prune that loop l runs inside persist_batch
OwnPruneStep(l) ==
    /\ pc[l] \in PrunePcs
    /\ pc'[l] # pc[l]

\* the timestamp of the batch of loop l is not before the cutoff of the
\* prune loop l runs
InsideRetention(l) ==
    \/ retention_days = 0
    \/ batch[l].timestamp_ms >=
           IF pc[l] = "prune_retention"
           THEN CutoffMs(current_time_ms(clock'), retention_days)
           ELSE cutoff[l]

\* C37: with max_captures >= 1 and the batch inside the retention window,
\* the prune of a persist_batch call does not delete the capture row that
\* call has just inserted.
PruneKeepsCommitted ==
    [][\A l \in Loops :
          (/\ OwnPruneStep(l)
           /\ max_captures >= 1
           /\ InsideRetention(l)
           /\ capture_id[l] \in CaptureIds(captures))
          => capture_id[l] \in CaptureIds(captures')]_vars

\* ---- C38 -----------------------------------------------------------------
\* the last iteration grabbed a frame that was FirstFrame or Significant and
\* its persist_batch failed
LastPersistFailed ==
    /\ iterated # << >>
    /\ iterated[Len(iterated)] = "persist_failed"

\* the tick of this step grabs the content of the frame before it
SameContentAgain ==
    /\ evaluated # << >>
    /\ evaluated' = Append(evaluated, evaluated[Len(evaluated)])

\* C38: the tick after an iteration whose persist failed, with the screen
\* unchanged, is judged Insignificant and skipped: nothing is stored or sent
\* for the content of the failed frame.
FailedFrameNotRetried ==
    [][(LastPersistFailed /\ SameContentAgain) =>
           /\ returned'.kind = "Insignificant"
           /\ iterated' = Append(iterated, "skipped")
           /\ captures' = captures
           /\ events' = events
           /\ frame_number' = frame_number]_vars

\* a first frame whose persist failed was followed by a skipped tick, with
\* nothing stored
SkippedAfterFailure ==
    /\ iterated = <<"persist_failed", "skipped">>
    /\ evaluated[1] = evaluated[2]
    /\ captures = {}
    /\ events = << >>

\* ---- C39 -----------------------------------------------------------------
\* C39: a loop whose shutdown signal has been sent eventually reaches its
\* terminal state, if its task is scheduled fairly.
SignalledLoopStops ==
    \A l \in Loops : (shutdown_rx[l] > 0) ~> (pc[l] = "done")

\* ---- C40 -----------------------------------------------------------------
\* C40: with base > 0, record(Insignificant) makes the delay strictly larger
\* (and not larger than max) as long as it is below max, and leaves it at
\* max once it is there; record(Significant) and record(FirstFrame) set it
\* to base. The delay being a whole number of milliseconds, max is reached
\* after finitely many Insignificant decisions.
InsignificantRunClimbs ==
    [][/\ (bk.base > 0 /\ bk_call' = "Insignificant") =>
              IF bk.current < bk.max
              THEN bk'.current > bk.current /\ bk'.current <= bk.max
              ELSE bk'.current = bk.max
       /\ bk_call' \in {"Significant", "FirstFrame"} =>
              bk'.current = bk.base]_vars

\* a run of Insignificant decisions has taken the delay from the base 1 to
\* the largest max
ClimbedToMax ==
    /\ bk.base = 1
    /\ bk.max = MaxDelayMs
    /\ bk.current = bk.max
    /\ bk_call = "Insignificant"
====
